---- MODULE Spec2Model ----
(***************************************************************************)
(* A model of the slsk-rs TUI client's coordinator (src/src/bin/tui):      *)
(* the search rate limiter and its drain tasks, per-user download          *)
(* serialization, the download negotiation, result aggregation and the     *)
(* server read loop.  Each subsystem has its own specification over the    *)
(* shared variables; the other subsystems' variables stay unchanged.       *)
(***************************************************************************)
EXTENDS Integers, Sequences, FiniteSets, TLC

VARIABLES
    \* ---- search rate limiter (client.rs, SearchRateLimiter and its users)
    now,                \* Instant::now(), in milliseconds
    search_timestamps,  \* SearchRateLimiter.search_timestamps
    queued_searches,    \* SearchRateLimiter.queued_searches
    submitted,          \* number of search commands received so far
    cmd,                \* the command task's position inside a search command
    drains,             \* the spawned rate-limit drain tasks
    rate_limit_rx,      \* messages waiting in the rate_limit channel
    sent,               \* FileSearch frames handed to write_tx, in order
    \* ---- download scheduling (client.rs) and the App's download list (app.rs)
    TOKEN_COUNTER,          \* the process-wide AtomicU32
    pending_downloads,      \* ClientState.pending_downloads: user -> Vec
    active_download_users,  \* ClientState.active_download_users
    pending_browse,         \* ClientState.pending_browse
    addr_replies,           \* GetPeerAddress responses on their way to the main loop
    main,                   \* the main loop inside handle_server_response
    tasks,                  \* the spawned per-user download tasks
    event_rx,               \* AppEvents waiting for the App
    app_downloads,          \* App.downloads, by id
    issued,                 \* download ids handed out by DownloadFile commands
    retried,                \* ids named by a RetryDownloadFile command so far
    browses,                \* number of BrowseUser commands so far
    \* ---- one download's negotiation and transfer (client.rs, debug.rs)
    variant,            \* "tui": connect_to_peer_and_download, "batch": download_file
    neg_pc,             \* position of the download
    peer_in,            \* peer messages the reads on the peer channel delivered
    peer_closed,        \* a read on the peer channel returned 0
    neg_reads,          \* reads on the peer channel that returned frames
    transfer_token,     \* Option<u32>: <<>> is None, <<t>> is Some(t)
    file_size,          \* expected size
    peer_out,           \* messages written on the peer channel, in order
    file_connected,     \* the file-kind connection was established
    file_out,           \* writes on the file channel, in order
    downloaded,         \* bytes received on the file channel
    file_ended,         \* the read loop on the file channel ended without error
    result,             \* "none", "Completed" or "Failed"
    \* ---- aggregation of search results (client.rs)
    pending_searches,        \* ClientState.pending_searches (its keys)
    spotify_track_searches,  \* ClientState.spotify_track_searches
    retry_searches,          \* ClientState.retry_searches
    searches,                \* kind of every search executed so far, by token
    timers,                  \* sleeping aggregation timer tasks, by token
    search_timeout_rx,       \* tokens waiting in the search_timeout channel
    peers,                   \* the peer connection handlers
    responses,               \* FileSearchResponse messages decoded so far
    agg_events,              \* search events sent to the App, in order
    armed,                   \* timers spawned so far, by token
    processed,               \* results a handler has dealt with, by token
    collected,               \* results pushed to a search's list so far, by token
    fired,                   \* timer tokens the main loop has handled, by token
    \* ---- the server channel's read loop (client.rs)
    srv_sent,           \* frames the server has written, in order
    srv_wire,           \* bytes written by the server and not yet read
    read_buf,           \* the main loop's read buffer
    srv_log,            \* responses handled and parse errors reported, in order
    srv_reads,          \* reads that returned data
    srv_open,           \* the main loop is still reading
    \* ---- login and the session on the server channel (client.rs run_client, debug.rs connect_once)
    lg_variant,            \* "tui": run_client, "batch": connect_once
    lg_sent,               \* frames the server has written, in order
    lg_wire,               \* bytes written by the server and not yet read
    lg_read_buf,           \* the login loop's read_buf
    lg_pc,                 \* position of the client
    lg_cause,              \* why the login ended without success
    lg_out,                \* requests written after LoginSuccess, in order
    lg_main_buf,           \* the main loop's read_buf
    lg_decoded,            \* every buffer given to read_server_message, in order
    lg_handled,            \* responses the main loop has handled, in order
    lg_lost,               \* the server channel failed or was closed after login
    \* ---- the browse connection to a peer (client.rs connect_to_peer_and_browse)
    br_sent,               \* frames the peer has written, in order
    br_wire,               \* bytes written by the peer and not yet read
    br_read_buf,           \* read_buf of connect_to_peer_and_browse
    br_pc,                 \* "read", "done" (Ok(directories)) or "failed" (Err)
    br_cause,              \* why the browse failed
    br_skipped,            \* number of frames decoded and passed over
    br_directories,        \* the listing returned
    \* ---- connecting with backoff (debug.rs connect_with_retry, indexer/main.rs connect)
    attempt,               \* connect_with_retry's attempt counter
    bo_pc,                 \* "connect", "sleep", "connected" or "gave_up"
    bo_errors,             \* the error text of each failed attempt, in order
    bo_delays,             \* the seconds slept after each failed attempt, in order
    \* ---- the batch downloader's track loop (debug.rs main)
    bt_downloads,          \* downloads: per track its status and retry_count
    bt_pc,                 \* "pick", "search", "download" or "done"
    bt_idx,                \* idx: the track of the current round
    bt_candidates,         \* candidates not yet tried in the current round
    bt_completed,          \* completed
    bt_failed,             \* failed
    bt_rounds,             \* per track, the rounds started for it (a search was issued)
    bt_search_errors,      \* searches that ended with an error so far
    \* ---- next_token with the counter's 32-bit width (client.rs, debug.rs)
    token_counter,         \* TOKEN_COUNTER as a u32, in 16-bit halves <<high, low>>
    tk_calls,              \* calls of next_token so far, <<multiples of 2^16, rest>>
    tk_first,              \* the value returned by the first call of the latest run of calls
    tk_last,               \* the value returned by the last call of the latest run of calls
    tk_prev_max,           \* the largest value returned before the latest run of calls
    tk_max,                \* the largest value returned so far
    tk_held,               \* per task, the token it got last
    tk_steps,              \* runs of calls so far
    \* ---- encoding and decoding one message (server.rs, peer.rs, peer_init.rs, protocol.rs)
    cd_msg,                \* the message instance
    cd_pc,                 \* "idle", "chosen", "encoded" or "decoded"
    cd_bytes,              \* the frame written for cd_msg
    cd_decoded,            \* what the reader makes of cd_bytes
    cd_count,              \* messages taken so far
    \* ---- a connection a peer opens to the listener (client.rs handle_incoming_peer)
    in_msg,                \* the peer-init message the peer wrote
    in_frame,              \* the bytes of its frame, 4 + declared length
    in_wire,               \* bytes written by the peer and not yet read
    in_taken,              \* all bytes read from the socket so far
    in_read_buf,           \* read_buf of handle_incoming_peer
    in_pc,                 \* "idle", "wait", "init_done" or "failed"
    in_init,               \* what read_peer_init_message returned
    \* ---- one primitive read on a buffer (protocol.rs ProtocolRead)
    pr_buf,                \* the buffer, from its cursor on
    pr_kind,               \* the type read
    pr_result,             \* Ok(value) or Err(BufferUnderflow)
    pr_rest,               \* the buffer, from its cursor on, after the read
    \* ---- choosing among accumulated results (client.rs pick_best_file, debug.rs pick_best_files)
    pk_results,            \* results, in insertion order
    pk_exclude,            \* exclude_users (tried_users of the track)
    pk_pc,                 \* "collect" or "picked"
    pk_best,               \* what pick_best_file returned
    pk_candidates,         \* what pick_best_files returned
    \* ---- queued searches and their kinds (client.rs QueuedSearch, try_execute_or_queue_search, the drain task)
    qs_pc,                 \* "start" until the earlier searches are in place, then "run"
    qs_now,                \* Instant::now(), in ms
    qs_st,                 \* the ClientState fields execute_search writes
    qs_queued,             \* rate_limiter.queued_searches, the QueuedSearch values
    qs_submitted,          \* history: what each command handed to try_execute_or_queue_search
    qs_sent,               \* history: each execute_search call, its token and its caller
    \* ---- a connection the server asked for (client.rs handle_server_response ConnectToPeer, handle_peer_connection)
    pf_pc,                 \* "idle", "spawned", "open" or "ended"
    pf_push,               \* the ConnectToPeer the server pushed
    pf_dialed,             \* the address given to TcpStream::connect
    pf_out,                \* the bytes the client wrote on the connection
    pf_frames,             \* history: the frames the peer wrote
    pf_wire,               \* bytes of the peer not yet read
    pf_read_buf,           \* read_buf of handle_peer_connection
    pf_decoded,            \* the result of read_peer_message for each frame cut
    \* ---- the relay server (bin/server: state.rs, handlers.rs, connection.rs)
    rs_state,              \* ServerState: users, connections, registered, rooms
    rs_conn,               \* each connection task: whether it runs, and its local username
    rs_last                \* the reply to the Login request just handled, if one was

rateVars == <<now, search_timestamps, queued_searches, submitted, cmd, drains,
              rate_limit_rx, sent>>

dlRest == <<pending_downloads, active_download_users, pending_browse,
            addr_replies, main, tasks, event_rx, app_downloads, issued, retried,
            browses>>

dlVars == <<TOKEN_COUNTER, dlRest>>

negVars == <<variant, neg_pc, peer_in, peer_closed, neg_reads, transfer_token,
             file_size, peer_out, file_connected, file_out, downloaded, file_ended,
             result>>

aggVars == <<pending_searches, spotify_track_searches, retry_searches, searches,
             timers, search_timeout_rx, peers, responses, agg_events, armed,
             processed, collected, fired>>

srvVars == <<srv_sent, srv_wire, read_buf, srv_log, srv_reads, srv_open>>

loginVars == <<lg_variant, lg_sent, lg_wire, lg_read_buf, lg_pc, lg_cause,
    lg_out, lg_main_buf, lg_decoded, lg_handled, lg_lost>>

browseVars == <<br_sent, br_wire, br_read_buf, br_pc, br_cause, br_skipped,
    br_directories>>

backoffVars == <<attempt, bo_pc, bo_errors, bo_delays>>

batchVars == <<bt_downloads, bt_pc, bt_idx, bt_candidates, bt_completed,
    bt_failed, bt_rounds, bt_search_errors>>

tokenVars == <<token_counter, tk_calls, tk_first, tk_last, tk_prev_max,
    tk_max, tk_held, tk_steps>>

codecVars == <<cd_msg, cd_pc, cd_bytes, cd_decoded, cd_count>>

inboundVars == <<in_msg, in_frame, in_wire, in_taken, in_read_buf, in_pc,
    in_init>>

primVars == <<pr_buf, pr_kind, pr_result, pr_rest>>

pickVars == <<pk_results, pk_exclude, pk_pc, pk_best, pk_candidates>>

qsVars == <<qs_pc, qs_now, qs_st, qs_queued, qs_submitted, qs_sent>>

pfVars == <<pf_pc, pf_push, pf_dialed, pf_out, pf_frames, pf_wire,
    pf_read_buf, pf_decoded>>

rsVars == <<rs_state, rs_conn, rs_last>>

vars == <<rateVars, dlVars, negVars, aggVars, srvVars, loginVars, browseVars, backoffVars, batchVars, tokenVars, codecVars, inboundVars, primVars, pickVars, qsVars, pfVars, rsVars>>

\* what each subsystem leaves alone (the token counter is shared by the
\* download commands and the searches)
notRate == <<dlVars, negVars, aggVars, srvVars, loginVars, browseVars, backoffVars, batchVars, tokenVars, codecVars, inboundVars, primVars, pickVars, qsVars, pfVars, rsVars>>
notDl == <<rateVars, negVars, aggVars, srvVars, loginVars, browseVars, backoffVars, batchVars, tokenVars, codecVars, inboundVars, primVars, pickVars, qsVars, pfVars, rsVars>>
notNeg == <<rateVars, dlVars, aggVars, srvVars, loginVars, browseVars, backoffVars, batchVars, tokenVars, codecVars, inboundVars, primVars, pickVars, qsVars, pfVars, rsVars>>
notAgg == <<rateVars, dlRest, negVars, srvVars, loginVars, browseVars, backoffVars, batchVars, tokenVars, codecVars, inboundVars, primVars, pickVars, qsVars, pfVars, rsVars>>
notSrv == <<rateVars, dlVars, negVars, aggVars, loginVars, browseVars, backoffVars, batchVars, tokenVars, codecVars, inboundVars, primVars, pickVars, qsVars, pfVars, rsVars>>
notLogin == <<rateVars, dlVars, negVars, aggVars, srvVars, browseVars, backoffVars, batchVars, tokenVars, codecVars, inboundVars, primVars, pickVars, qsVars, pfVars, rsVars>>
notBrowse == <<rateVars, dlVars, negVars, aggVars, srvVars, loginVars, backoffVars, batchVars, tokenVars, codecVars, inboundVars, primVars, pickVars, qsVars, pfVars, rsVars>>
notBackoff == <<rateVars, dlVars, negVars, aggVars, srvVars, loginVars,
    browseVars, batchVars, tokenVars, codecVars, inboundVars, primVars, pickVars, qsVars, pfVars, rsVars>>
notBatch == <<rateVars, dlVars, negVars, aggVars, srvVars, loginVars,
    browseVars, backoffVars, tokenVars, codecVars, inboundVars, primVars, pickVars, qsVars, pfVars, rsVars>>
notToken == <<rateVars, dlVars, negVars, aggVars, srvVars, loginVars,
    browseVars, backoffVars, batchVars, codecVars, inboundVars, primVars, pickVars, qsVars, pfVars, rsVars>>
notCodec == <<rateVars, dlVars, negVars, aggVars, srvVars, loginVars,
    browseVars, backoffVars, batchVars, tokenVars, inboundVars, primVars, pickVars, qsVars, pfVars, rsVars>>
notInbound == <<rateVars, dlVars, negVars, aggVars, srvVars, loginVars,
    browseVars, backoffVars, batchVars, tokenVars, codecVars, primVars, pickVars, qsVars, pfVars, rsVars>>
notPrim == <<rateVars, dlVars, negVars, aggVars, srvVars, loginVars,
    browseVars, backoffVars, batchVars, tokenVars, codecVars, inboundVars, pickVars, qsVars, pfVars, rsVars>>
notPick == <<rateVars, dlVars, negVars, aggVars, srvVars, loginVars,
    browseVars, backoffVars, batchVars, tokenVars, codecVars, inboundVars,
    primVars, qsVars, pfVars, rsVars>>
notQs == <<rateVars, dlVars, negVars, aggVars, srvVars, loginVars, browseVars,
    backoffVars, batchVars, tokenVars, codecVars, inboundVars, primVars,
    pickVars, pfVars, rsVars>>
notPf == <<rateVars, dlVars, negVars, aggVars, srvVars, loginVars, browseVars,
    backoffVars, batchVars, tokenVars, codecVars, inboundVars, primVars, pickVars,
    qsVars, rsVars>>
notRs == <<rateVars, dlVars, negVars, aggVars, srvVars, loginVars, browseVars,
    backoffVars, batchVars, tokenVars, codecVars, inboundVars, primVars, pickVars,
    qsVars, pfVars>>

(***************************************************************************)
(* Sequence helpers.                                                       *)
(***************************************************************************)
Range(s) == {s[i] : i \in 1..Len(s)}

RECURSIVE DropWhile(_, _)
DropWhile(s, cutoff) ==
    IF s # <<>> /\ Head(s) < cutoff THEN DropWhile(Tail(s), cutoff) ELSE s

(***************************************************************************)
(* Program constants and model bounds.                                     *)
(***************************************************************************)
SEARCH_RATE_LIMIT_MAX == 34
SEARCH_RATE_LIMIT_WINDOW == 220000
DRAIN_SLACK == 100

TICK == 2 * DRAIN_SLACK
MaxTicks == 1
MaxTime == 220400
MaxSearches == 36
MaxDrains == 2

Users == {"bob", "carol"}
MaxDownloads == 2
MaxRetryFiles == 1
MaxBrowses == 1
MaxTasks == 2
MaxBatch == 2
MaxReads == 2
MaxBytes == 20
MaxAggSearches == 2
MaxPeers == 2
MaxResponses == 3
MaxFrames == 3
MaxBrowseFrames == 3
MaxLoginFrames == 3
MaxTracks == 2
MaxSearchErrors == 2
MaxTokenTasks == 2
MaxTokenRuns == 5
MaxMessages == 1
MaxSources == 2
MaxPrimBytes == 8
MaxPad == 1
MaxQueuedSearches == 3
MaxQueuedWindows == 1
MaxPiercedFrames == 3
MaxPiercedRead == 18
MaxRelayConns == 2

\* Config of the relay server: max_users as configured here, min_version
\* as in Config::default
max_users == 2
min_version == 100
MaxPickResults == 3

(***************************************************************************)
(* SearchRateLimiter.                                                      *)
(***************************************************************************)
\* prune_old_searches: pop the front while it is older than now - window.
\* (Instant arithmetic: ts < now - window, written without subtraction.)
prune_old_searches(ts, t) == DropWhile(ts, t - SEARCH_RATE_LIMIT_WINDOW)

\* a limiter that lets the 35th search through
can_search_at_capacity(ts) == Len(ts) <= SEARCH_RATE_LIMIT_MAX

\* can_search, evaluated on the pruned timestamps.
can_search(ts) == Len(ts) < SEARCH_RATE_LIMIT_MAX

NoWait == -1

\* a wait computed whenever a timestamp is left, below capacity too
time_until_next_slot_nonempty(ts, t) ==
    IF ts = <<>> THEN NoWait
    ELSE IF Head(ts) + SEARCH_RATE_LIMIT_WINDOW > t
         THEN Head(ts) + SEARCH_RATE_LIMIT_WINDOW - t
         ELSE 0

\* time_until_next_slot on the pruned timestamps: None (NoWait) under
\* capacity, otherwise (front + window) saturating_duration_since now.
time_until_next_slot(ts, t) ==
    IF Len(ts) < SEARCH_RATE_LIMIT_MAX THEN NoWait
    ELSE IF Head(ts) + SEARCH_RATE_LIMIT_WINDOW > t
         THEN Head(ts) + SEARCH_RATE_LIMIT_WINDOW - t
         ELSE 0

\* record_search
record_search(ts, t) == Append(ts, t)

(***************************************************************************)
(* The command task: ClientCommand::Search and its siblings run            *)
(* try_execute_or_queue_search.                                            *)
(***************************************************************************)
Idle == [pc |-> "idle", search |-> 0]

\* try_execute_or_queue_search, first critical section and the branch after
\* it.  When the budget is full the search is queued and one message is put
\* on the rate_limit channel; otherwise execute_search is entered.
CmdSearch ==
    /\ cmd.pc = "idle"
    /\ submitted < MaxSearches
    /\ LET id == submitted + 1
           ts == prune_old_searches(search_timestamps, now)
       IN /\ submitted' = id
          /\ search_timestamps' = ts
          /\ IF can_search(ts)
             THEN /\ cmd' = [pc |-> "exec", search |-> id]
                  /\ UNCHANGED <<queued_searches, rate_limit_rx>>
             ELSE /\ queued_searches' = Append(queued_searches, id)
                  /\ rate_limit_rx' = rate_limit_rx + 1
                  /\ UNCHANGED cmd
    /\ UNCHANGED notRate
    /\ UNCHANGED <<now, drains, sent>>

\* execute_search, first critical section: record_search, then the
\* FileSearch frame goes to write_tx (no suspension point in between).
ExecRecord(search) ==
    /\ search_timestamps' = record_search(search_timestamps, now)
    /\ sent' = Append(sent, [id |-> search, time |-> now])

\* execute_search, second critical section: searches_remaining prunes.
ExecRemaining ==
    search_timestamps' = prune_old_searches(search_timestamps, now)

CmdExec ==
    /\ cmd.pc = "exec"
    /\ ExecRecord(cmd.search)
    /\ cmd' = [cmd EXCEPT !.pc = "remaining"]
    /\ UNCHANGED notRate
    /\ UNCHANGED <<now, queued_searches, submitted, drains, rate_limit_rx>>

CmdRemaining ==
    /\ cmd.pc = "remaining"
    /\ ExecRemaining
    /\ cmd' = Idle
    /\ UNCHANGED notRate
    /\ UNCHANGED <<now, queued_searches, submitted, drains, rate_limit_rx, sent>>

(***************************************************************************)
(* run_client's main loop, rate_limit_rx branch, and the drain task it     *)
(* spawns.                                                                 *)
(***************************************************************************)
Free == [pc |-> "free", wake |-> 0, search |-> 0]

FreeSlots == {d \in 1..MaxDrains : drains[d].pc = "free"}

\* Some(()) = rate_limit_rx.recv(): spawn a drain task only when
\* time_until_next_slot is Some(wait); it sleeps wait + 100 ms.
RateLimitRecv ==
    /\ rate_limit_rx > 0
    /\ LET ts == prune_old_searches(search_timestamps, now)
           wait == time_until_next_slot(ts, now)
       IN /\ search_timestamps' = ts
          /\ rate_limit_rx' = rate_limit_rx - 1
          /\ IF wait = NoWait
             THEN UNCHANGED drains
             ELSE /\ FreeSlots # {}
                  /\ LET d == CHOOSE x \in FreeSlots : \A y \in FreeSlots : x <= y
                     IN drains' = [drains EXCEPT ![d] =
                            [pc |-> "sleep", wake |-> now + wait + DRAIN_SLACK,
                             search |-> 0]]
    /\ UNCHANGED notRate
    /\ UNCHANGED <<now, queued_searches, submitted, cmd, sent>>

\* The drain loop's first critical section: can_search, then pop_queued.
DrainPop(d) ==
    /\ \/ drains[d].pc = "sleep" /\ now >= drains[d].wake
       \/ drains[d].pc = "pop"
    /\ LET ts == prune_old_searches(search_timestamps, now)
       IN /\ search_timestamps' = ts
          /\ IF can_search(ts) /\ queued_searches # <<>>
             THEN /\ drains' = [drains EXCEPT ![d].pc = "exec",
                                              ![d].search = Head(queued_searches)]
                  /\ queued_searches' = Tail(queued_searches)
             ELSE /\ drains' = [drains EXCEPT ![d].pc = "has_queued"]
                  /\ UNCHANGED queued_searches
    /\ UNCHANGED notRate
    /\ UNCHANGED <<now, submitted, cmd, rate_limit_rx, sent>>

\* None => has_queued: signal the main loop again when searches still wait.
DrainHasQueued(d) ==
    /\ drains[d].pc = "has_queued"
    /\ rate_limit_rx' = IF queued_searches # <<>> THEN rate_limit_rx + 1
                        ELSE rate_limit_rx
    /\ drains' = [drains EXCEPT ![d] = Free]
    /\ UNCHANGED notRate
    /\ UNCHANGED <<now, search_timestamps, queued_searches, submitted, cmd, sent>>

DrainExec(d) ==
    /\ drains[d].pc = "exec"
    /\ ExecRecord(drains[d].search)
    /\ drains' = [drains EXCEPT ![d].pc = "remaining"]
    /\ UNCHANGED notRate
    /\ UNCHANGED <<now, queued_searches, submitted, cmd, rate_limit_rx>>

DrainRemaining(d) ==
    /\ drains[d].pc = "remaining"
    /\ ExecRemaining
    /\ drains' = [drains EXCEPT ![d].pc = "check"]
    /\ UNCHANGED notRate
    /\ UNCHANGED <<now, queued_searches, submitted, cmd, rate_limit_rx, sent>>

\* (more_queued, can_continue) after a drained search was executed.
DrainCheck(d) ==
    /\ drains[d].pc = "check"
    /\ LET ts == prune_old_searches(search_timestamps, now)
       IN /\ search_timestamps' = ts
          /\ IF queued_searches = <<>>
             THEN /\ drains' = [drains EXCEPT ![d] = Free]
                  /\ UNCHANGED rate_limit_rx
             ELSE IF ~can_search(ts)
             THEN /\ drains' = [drains EXCEPT ![d] = Free]
                  /\ rate_limit_rx' = rate_limit_rx + 1
             ELSE /\ drains' = [drains EXCEPT ![d].pc = "pop", ![d].search = 0]
                  /\ UNCHANGED rate_limit_rx
    /\ UNCHANGED notRate
    /\ UNCHANGED <<now, queued_searches, submitted, cmd, sent>>

(***************************************************************************)
(* Time.  A short tick may pass between any two steps; a long wait (the    *)
(* user leaving the client alone, a drain task sleeping) passes only while *)
(* no task is runnable.                                                    *)
(***************************************************************************)
Sleeping == {d \in 1..MaxDrains : drains[d].pc = "sleep"}

Quiescent ==
    /\ cmd.pc = "idle"
    /\ rate_limit_rx = 0
    /\ \A d \in 1..MaxDrains :
          \/ drains[d].pc = "free"
          \/ drains[d].pc = "sleep" /\ now < drains[d].wake

Tick ==
    /\ now % 1000 < MaxTicks * TICK
    /\ now + TICK <= MaxTime
    /\ now' = now + TICK
    /\ UNCHANGED notRate
    /\ UNCHANGED <<search_timestamps, queued_searches, submitted, cmd, drains,
                   rate_limit_rx, sent>>

\* The earliest drain task's timer expires.
WakeTime ==
    /\ Quiescent
    /\ Sleeping # {}
    /\ LET w == CHOOSE x \in {drains[d].wake : d \in Sleeping} :
                    \A d \in Sleeping : x <= drains[d].wake
       IN now' = w
    /\ UNCHANGED notRate
    /\ UNCHANGED <<search_timestamps, queued_searches, submitted, cmd, drains,
                   rate_limit_rx, sent>>

\* Nothing happens for a whole window.
IdleWindow ==
    /\ Quiescent
    /\ Sleeping = {}
    /\ now + SEARCH_RATE_LIMIT_WINDOW <= MaxTime
    /\ now' = now + SEARCH_RATE_LIMIT_WINDOW
    /\ UNCHANGED notRate
    /\ UNCHANGED <<search_timestamps, queued_searches, submitted, cmd, drains,
                   rate_limit_rx, sent>>

RateInit ==
    /\ now = 0
    /\ search_timestamps = <<>>
    /\ queued_searches = <<>>
    /\ submitted = 0
    /\ cmd = Idle
    /\ drains = [d \in 1..MaxDrains |-> Free]
    /\ rate_limit_rx = 0
    /\ sent = <<>>

RateNext ==
    \/ CmdSearch
    \/ CmdExec
    \/ CmdRemaining
    \/ RateLimitRecv
    \/ \E d \in 1..MaxDrains : DrainPop(d)
    \/ \E d \in 1..MaxDrains : DrainHasQueued(d)
    \/ \E d \in 1..MaxDrains : DrainExec(d)
    \/ \E d \in 1..MaxDrains : DrainRemaining(d)
    \/ \E d \in 1..MaxDrains : DrainCheck(d)
    \/ Tick
    \/ WakeTime
    \/ IdleWindow

(***************************************************************************)
(* Download scheduling: the command task's DownloadFile,                   *)
(* DownloadSpotifyTrack, RetryDownloadFile and BrowseUser handlers, the    *)
(* main loop's GetPeerAddress handler and the per-user download task it    *)
(* spawns.  connect_to_peer_and_download is seen here from outside: it     *)
(* fails before DownloadStarted, or starts and then completes or fails.    *)
(***************************************************************************)
next_token == TOKEN_COUNTER

Event(type, id) == [type |-> type, id |-> id]

\* ClientCommand::DownloadFile: two tokens, push under the lock, the
\* DownloadQueued event, and GetPeerAddress unless the user is active.
QueueDownload(u, id, token, announce) ==
    /\ pending_downloads' = [pending_downloads EXCEPT
           ![u] = Append(@, [id |-> id, token |-> token])]
    /\ event_rx' = IF announce THEN Append(event_rx, Event("DownloadQueued", id))
                   ELSE event_rx
    /\ addr_replies' = IF u \in active_download_users THEN addr_replies
                       ELSE Append(addr_replies, u)

CmdDownloadFile(u) ==
    /\ event_rx = <<>>
    /\ Cardinality(issued) < MaxDownloads
    /\ LET id == next_token
       IN /\ TOKEN_COUNTER' = TOKEN_COUNTER + 2
          /\ issued' = issued \cup {id}
          /\ QueueDownload(u, id, id + 1, TRUE)
    /\ UNCHANGED notDl
    /\ UNCHANGED <<active_download_users, pending_browse, main, tasks,
                   app_downloads, retried, browses>>

\* ClientCommand::DownloadSpotifyTrack: the same steps for the track's
\* matched file, whose username is u.
CmdDownloadSpotifyTrack(u) ==
    /\ event_rx = <<>>
    /\ Cardinality(issued) < MaxDownloads
    /\ LET id == next_token
       IN /\ TOKEN_COUNTER' = TOKEN_COUNTER + 2
          /\ issued' = issued \cup {id}
          /\ QueueDownload(u, id, id + 1, TRUE)
    /\ UNCHANGED notDl
    /\ UNCHANGED <<active_download_users, pending_browse, main, tasks,
                   app_downloads, retried, browses>>

\* ClientCommand::RetryDownloadFile: the download id is kept, a new transfer
\* token is drawn, no DownloadQueued event is sent.  The App offers a retry
\* for a download it shows as Failed.
CmdRetryDownloadFile(id, u) ==
    /\ event_rx = <<>>
    /\ Cardinality(retried) < MaxRetryFiles
    /\ id \in DOMAIN app_downloads
    /\ app_downloads[id].status = "Failed"
    /\ TOKEN_COUNTER' = TOKEN_COUNTER + 1
    /\ retried' = retried \cup {id}
    /\ QueueDownload(u, id, next_token, FALSE)
    /\ UNCHANGED notDl
    /\ UNCHANGED <<active_download_users, pending_browse, main, tasks,
                   app_downloads, issued, browses>>

\* ClientCommand::BrowseUser
CmdBrowseUser(u) ==
    /\ event_rx = <<>>
    /\ browses < MaxBrowses
    /\ browses' = browses + 1
    /\ pending_browse' = pending_browse \cup {u}
    /\ addr_replies' = Append(addr_replies, u)
    /\ UNCHANGED notDl
    /\ UNCHANGED <<TOKEN_COUNTER, pending_downloads, active_download_users, main,
                   tasks, event_rx, app_downloads, issued, retried>>

MainIdle == [pc |-> "idle", user |-> "", downloads |-> <<>>]

\* handle_server_response, GetPeerAddress: first critical section.
RespTake ==
    /\ event_rx = <<>>
    /\ main.pc = "idle"
    /\ addr_replies # <<>>
    /\ LET u == Head(addr_replies)
           downloads == pending_downloads[u]
       IN /\ addr_replies' = Tail(addr_replies)
          /\ pending_downloads' = [pending_downloads EXCEPT ![u] = <<>>]
          /\ main' = IF u \in pending_browse
                     THEN [pc |-> "browse", user |-> u, downloads |-> downloads]
                     ELSE IF downloads # <<>>
                     THEN [pc |-> "activate", user |-> u, downloads |-> downloads]
                     ELSE MainIdle
    /\ UNCHANGED notDl
    /\ UNCHANGED <<TOKEN_COUNTER, active_download_users, pending_browse, tasks,
                   event_rx, app_downloads, issued, retried, browses>>

\* should_browse: the browse task is spawned, then pending_browse.remove.
RespBrowse ==
    /\ event_rx = <<>>
    /\ main.pc = "browse"
    /\ pending_browse' = pending_browse \ {main.user}
    /\ main' = IF main.downloads # <<>> THEN [main EXCEPT !.pc = "activate"]
               ELSE MainIdle
    /\ UNCHANGED notDl
    /\ UNCHANGED <<TOKEN_COUNTER, pending_downloads, active_download_users,
                   addr_replies, tasks, event_rx, app_downloads, issued, retried,
                   browses>>

TaskFree == [pc |-> "free", user |-> "", queue |-> <<>>]

FreeTasks == {t \in 1..MaxTasks : tasks[t].pc = "free"}

\* !downloads_for_user.is_empty(): active_download_users.insert, then the
\* download task is spawned with the downloads taken.
RespActivate ==
    /\ event_rx = <<>>
    /\ main.pc = "activate"
    /\ FreeTasks # {}
    /\ active_download_users' = active_download_users \cup {main.user}
    /\ LET t == CHOOSE x \in FreeTasks : \A y \in FreeTasks : x <= y
       IN tasks' = [tasks EXCEPT ![t] =
              [pc |-> "connect", user |-> main.user, queue |-> main.downloads]]
    /\ main' = MainIdle
    /\ UNCHANGED notDl
    /\ UNCHANGED <<TOKEN_COUNTER, pending_downloads, pending_browse, addr_replies,
                   event_rx, app_downloads, issued, retried, browses>>

\* The for loop moves on to the next download of the task's queue.
Advance(t) ==
    tasks' = [tasks EXCEPT ![t].queue = Tail(@),
                           ![t].pc = IF Len(tasks[t].queue) > 1 THEN "connect"
                                     ELSE "more"]

\* connect_to_peer_and_download up to DownloadStarted: TcpStream::connect or
\* a write fails (the task then sends DownloadFailed), or the peer channel
\* is open and DownloadStarted is sent.
TaskConnect(t) ==
    /\ event_rx = <<>>
    /\ tasks[t].pc = "connect"
    /\ LET id == Head(tasks[t].queue).id
       IN \/ /\ event_rx' = Append(event_rx, Event("DownloadFailed", id))
             /\ Advance(t)
          \/ /\ event_rx' = Append(event_rx, Event("DownloadStarted", id))
             /\ tasks' = [tasks EXCEPT ![t].pc = "transfer"]
    /\ UNCHANGED notDl
    /\ UNCHANGED <<TOKEN_COUNTER, pending_downloads, active_download_users,
                   pending_browse, addr_replies, main, app_downloads, issued,
                   retried, browses>>

\* A variant of the rest of connect_to_peer_and_download that reports an
\* error after DownloadCompleted was already sent.
TaskTransferCompletedThenErr(t) ==
    /\ event_rx = <<>>
    /\ tasks[t].pc = "transfer"
    /\ LET id == Head(tasks[t].queue).id
       IN event_rx' = <<Event("DownloadCompleted", id), Event("DownloadFailed", id)>>
    /\ Advance(t)
    /\ UNCHANGED notDl
    /\ UNCHANGED <<TOKEN_COUNTER, pending_downloads, active_download_users,
                   pending_browse, addr_replies, main, app_downloads, issued,
                   retried, browses>>

\* The rest of connect_to_peer_and_download: with or without a
\* DownloadProgress event on the way, it returns an error (the task then
\* sends DownloadFailed) or sends DownloadCompleted.
TaskTransfer(t) ==
    /\ event_rx = <<>>
    /\ tasks[t].pc = "transfer"
    /\ LET id == Head(tasks[t].queue).id
       IN \E progress \in BOOLEAN, type \in {"DownloadFailed", "DownloadCompleted"} :
              event_rx' = (IF progress THEN <<Event("DownloadProgress", id)>>
                           ELSE <<>>) \o <<Event(type, id)>>
    /\ Advance(t)
    /\ UNCHANGED notDl
    /\ UNCHANGED <<TOKEN_COUNTER, pending_downloads, active_download_users,
                   pending_browse, addr_replies, main, app_downloads, issued,
                   retried, browses>>

\* more_downloads = pending_downloads.remove(user)
TaskMore(t) ==
    /\ event_rx = <<>>
    /\ tasks[t].pc = "more"
    /\ LET u == tasks[t].user
           more == pending_downloads[u]
       IN /\ pending_downloads' = [pending_downloads EXCEPT ![u] = <<>>]
          /\ tasks' = [tasks EXCEPT ![t].queue = more,
                                    ![t].pc = IF more = <<>> THEN "deactivate"
                                              ELSE "connect"]
    /\ UNCHANGED notDl
    /\ UNCHANGED <<TOKEN_COUNTER, active_download_users, pending_browse,
                   addr_replies, main, event_rx, app_downloads, issued, retried,
                   browses>>

\* more_downloads.is_empty(): active_download_users.remove, in a critical
\* section of its own, and the task ends.
TaskDeactivate(t) ==
    /\ event_rx = <<>>
    /\ tasks[t].pc = "deactivate"
    /\ active_download_users' = active_download_users \ {tasks[t].user}
    /\ tasks' = [tasks EXCEPT ![t] = TaskFree]
    /\ UNCHANGED notDl
    /\ UNCHANGED <<TOKEN_COUNTER, pending_downloads, pending_browse, addr_replies,
                   main, event_rx, app_downloads, issued, retried, browses>>

(***************************************************************************)
(* App::handle_app_event, the download events.  The App's loop takes the   *)
(* events in channel order; it is modelled as taking each event before the *)
(* client's tasks move on, which leaves the order of events, and so the    *)
(* sequence of states of App.downloads, as it is.                          *)
(***************************************************************************)
NewDownload == [status |-> "Queued", downloaded |-> "none"]

handle_app_event(downloads, ev) ==
    IF ev.type = "DownloadQueued"
    THEN IF ev.id \in DOMAIN downloads THEN downloads
         ELSE downloads @@ (ev.id :> NewDownload)
    ELSE IF ev.id \notin DOMAIN downloads THEN downloads
    ELSE IF ev.type = "DownloadStarted"
    THEN [downloads EXCEPT ![ev.id].status = "Downloading"]
    ELSE IF ev.type = "DownloadProgress"
    THEN [downloads EXCEPT ![ev.id].downloaded = "some"]
    ELSE IF ev.type = "DownloadCompleted"
    THEN [downloads EXCEPT ![ev.id].status = "Completed",
                           ![ev.id].downloaded = "all"]
    ELSE [downloads EXCEPT ![ev.id].status = "Failed"]

AppHandle ==
    /\ event_rx # <<>>
    /\ app_downloads' = handle_app_event(app_downloads, Head(event_rx))
    /\ event_rx' = Tail(event_rx)
    /\ UNCHANGED notDl
    /\ UNCHANGED <<TOKEN_COUNTER, pending_downloads, active_download_users,
                   pending_browse, addr_replies, main, tasks, issued, retried,
                   browses>>

DlInit ==
    /\ TOKEN_COUNTER = 1
    /\ pending_downloads = [u \in Users |-> <<>>]
    /\ active_download_users = {}
    /\ pending_browse = {}
    /\ addr_replies = <<>>
    /\ main = MainIdle
    /\ tasks = [t \in 1..MaxTasks |-> TaskFree]
    /\ event_rx = <<>>
    /\ app_downloads = <<>>
    /\ issued = {}
    /\ retried = {}
    /\ browses = 0

DlNext ==
    \/ \E u \in Users : CmdDownloadFile(u)
    \/ \E u \in Users : CmdDownloadSpotifyTrack(u)
    \/ \E id \in issued, u \in Users : CmdRetryDownloadFile(id, u)
    \/ \E u \in Users : CmdBrowseUser(u)
    \/ RespTake
    \/ RespBrowse
    \/ RespActivate
    \/ \E t \in 1..MaxTasks : TaskConnect(t)
    \/ \E t \in 1..MaxTasks : TaskTransfer(t)
    \/ \E t \in 1..MaxTasks : TaskMore(t)
    \/ \E t \in 1..MaxTasks : TaskDeactivate(t)
    \/ AppHandle

(***************************************************************************)
(* One download after DownloadStarted: the negotiation loop on the peer    *)
(* channel and the transfer on the file channel.  The TUI's                *)
(* connect_to_peer_and_download (client.rs) and the batch downloader's     *)
(* download_file (debug.rs) run the same protocol; variant says which.     *)
(***************************************************************************)
ReqFile == "a.mp3"
OtherFile == "b.mp3"

\* the PendingDownload / MatchedFile being fetched and the token of its
\* peer-kind PeerInit
download == [id |-> 1, filename |-> ReqFile, token |-> 5, size |-> 20]

PeerMsg(ty, dir, tok, name, size) ==
    [type |-> ty, direction |-> dir, token |-> tok, filename |-> name,
     file_size |-> size]

TransferRequest(direction, token, filename, size) ==
    PeerMsg("TransferRequest", direction, token, filename, size)

PlaceInQueueResponse(filename) == PeerMsg("PlaceInQueueResponse", "", 0, filename, <<>>)

UploadDenied(filename) == PeerMsg("UploadDenied", "", 0, filename, <<>>)

UploadFailed(filename) == PeerMsg("UploadFailed", "", 0, filename, <<>>)

TransferResponse(tok, ok) ==
    [type |-> "TransferResponse", token |-> tok, allowed |-> ok,
     file_size |-> <<>>, reason |-> <<>>]

PeerInit(kind, tok) ==
    [type |-> "PeerInit", connection_type |-> kind, token |-> tok]

QueueUpload(name) == [type |-> "QueueUpload", filename |-> name]

\* what the peer may put on the peer channel
PeerMessages ==
    {TransferRequest("Upload", 7, ReqFile, <<>>),
     TransferRequest("Upload", 300, ReqFile, <<10>>),
     TransferRequest("Download", 7, ReqFile, <<>>),
     TransferRequest("Upload", 7, OtherFile, <<>>),
     PlaceInQueueResponse(ReqFile),
     UploadDenied(ReqFile), UploadDenied(OtherFile),
     UploadFailed(ReqFile)}

\* the complete frames one read can leave in read_buf
Batches == UNION {[1..n -> PeerMessages] : n \in 1..MaxBatch}

\* sizes of the reads on the file channel
Chunks == {9, 10}

\* the k low-order bytes of n, least significant first
RECURSIVE LittleEndian(_, _)
LittleEndian(n, k) ==
    IF k = 0 THEN <<>> ELSE <<n % 256>> \o LittleEndian(n \div 256, k - 1)

\* mutant of put_u32_le: most significant byte first
put_u32_be(n) ==
    LET le == LittleEndian(n, 4) IN [i \in 1..4 |-> le[5 - i]]

\* u32::write_to and u64::write_to
put_u32_le(n) == LittleEndian(n, 4)

put_u64_le(n) == LittleEndian(n, 8)

\* the TransferRequest arm: direction Upload and the requested filename
Accepts(m) ==
    /\ m.type = "TransferRequest"
    /\ m.direction = "Upload"
    /\ m.filename = download.filename

\* mutant of Denies: UploadFailed is ignored
DeniesOnlyUploadDenied(m) ==
    /\ m.type = "UploadDenied"
    /\ (variant = "tui" => m.filename = download.filename)

\* the UploadDenied / UploadFailed arms: the TUI compares the filename, the
\* batch downloader bails on any
Denies(m) ==
    /\ m.type \in {"UploadDenied", "UploadFailed"}
    /\ (variant = "tui" => m.filename = download.filename)

\* one iteration of the while loop over complete frames; st.err is the early
\* return with Err, wfail says whether write_all on the peer channel fails
HandleMessage(st, m, wfail) ==
    IF Accepts(m)
    THEN [transfer_token |-> <<m.token>>,
          file_size |-> IF m.file_size # <<>> THEN m.file_size[1] ELSE st.file_size,
          peer_out |-> IF wfail THEN st.peer_out
                       ELSE Append(st.peer_out, TransferResponse(m.token, TRUE)),
          err |-> wfail]
    ELSE IF Denies(m) THEN [st EXCEPT !.err = TRUE]
    ELSE st

RECURSIVE HandleMessages(_, _, _)
HandleMessages(st, msgs, wfail) ==
    IF msgs = <<>> \/ st.err THEN st
    ELSE HandleMessages(HandleMessage(st, Head(msgs), wfail), Tail(msgs), wfail)

\* the download ends: Err becomes DownloadFailed (TUI task) or the Err arm of
\* the batch loop, Ok becomes DownloadCompleted / DownloadStatus::Completed
Fail ==
    /\ neg_pc' = "done"
    /\ result' = "Failed"

\* a read on the peer channel returns n > 0 bytes holding the frames of batch
NegRead ==
    /\ neg_pc = "negotiate"
    /\ neg_reads < MaxReads
    /\ \E batch \in Batches, wfail \in BOOLEAN :
        LET st == HandleMessages([transfer_token |-> transfer_token,
                                  file_size |-> file_size,
                                  peer_out |-> peer_out,
                                  err |-> FALSE], batch, wfail)
        IN  /\ peer_in' = peer_in \o batch
            /\ neg_reads' = neg_reads + 1
            /\ transfer_token' = st.transfer_token
            /\ file_size' = st.file_size
            /\ peer_out' = st.peer_out
            /\ IF st.err THEN Fail
               ELSE /\ neg_pc' = IF st.transfer_token # <<>> THEN "file_connect"
                                 ELSE "negotiate"
                    /\ result' = result
    /\ UNCHANGED <<variant, peer_closed, file_connected, file_out, downloaded,
                   file_ended>>
    /\ UNCHANGED notNeg

\* the read returns 0: the peer closed the peer channel
NegEof ==
    /\ neg_pc = "negotiate"
    /\ peer_closed' = TRUE
    /\ IF variant = "batch" /\ transfer_token # <<>>
       THEN neg_pc' = "file_connect" /\ result' = result
       ELSE Fail
    /\ UNCHANGED <<variant, peer_in, neg_reads, transfer_token, file_size, peer_out,
                   file_connected, file_out, downloaded, file_ended>>
    /\ UNCHANGED notNeg

\* the read fails
NegReadError ==
    /\ neg_pc = "negotiate"
    /\ Fail
    /\ UNCHANGED <<variant, peer_in, peer_closed, neg_reads, transfer_token,
                   file_size, peer_out, file_connected, file_out, downloaded,
                   file_ended>>
    /\ UNCHANGED notNeg

\* batch downloader only: TRANSFER_WAIT_TIMEOUT has elapsed at the loop head
NegTimeout ==
    /\ neg_pc = "negotiate"
    /\ variant = "batch"
    /\ Fail
    /\ UNCHANGED <<variant, peer_in, peer_closed, neg_reads, transfer_token,
                   file_size, peer_out, file_connected, file_out, downloaded,
                   file_ended>>
    /\ UNCHANGED notNeg

\* transfer_token.ok_or(..)?, drop(stream), TcpStream::connect
FileConnect ==
    /\ neg_pc = "file_connect"
    /\ \/ /\ transfer_token # <<>>
          /\ neg_pc' = "file_init"
          /\ file_connected' = TRUE
          /\ result' = result
       \/ /\ Fail
          /\ file_connected' = file_connected
    /\ UNCHANGED <<variant, peer_in, peer_closed, neg_reads, transfer_token,
                   file_size, peer_out, file_out, downloaded, file_ended>>
    /\ UNCHANGED notNeg

\* one write_all on the file channel: it succeeds and the next step follows,
\* or it fails and the download ends
FileWrite(pc, data, next) ==
    /\ neg_pc = pc
    /\ \/ /\ file_out' = Append(file_out, data)
          /\ neg_pc' = next
          /\ result' = result
       \/ /\ Fail
          /\ file_out' = file_out
    /\ UNCHANGED <<variant, peer_in, peer_closed, neg_reads, transfer_token,
                   file_size, peer_out, file_connected, downloaded, file_ended>>
    /\ UNCHANGED notNeg

FileWriteInit == FileWrite("file_init", PeerInit("F", download.token), "file_token")

FileWriteToken ==
    /\ transfer_token # <<>>
    /\ FileWrite("file_token", put_u32_le(transfer_token[1]), "file_offset")

FileWriteOffset == FileWrite("file_offset", put_u64_le(0), "create")

\* create_dir_all and File::create
FileCreate ==
    /\ neg_pc = "create"
    /\ \/ neg_pc' = "receive" /\ result' = result
       \/ Fail
    /\ UNCHANGED <<variant, peer_in, peer_closed, neg_reads, transfer_token,
                   file_size, peer_out, file_connected, file_out, downloaded,
                   file_ended>>
    /\ UNCHANGED notNeg

\* the check after the batch downloader's read loop
BatchOutcome(received) ==
    IF received >= (file_size * 95) \div 100 THEN "Completed" ELSE "Failed"

\* a read on the file channel returns n > 0 bytes
FileRead(n) ==
    /\ neg_pc = "receive"
    /\ downloaded + n <= MaxBytes
    /\ downloaded' = downloaded + n
    /\ IF variant = "tui" /\ downloaded + n >= file_size
       THEN /\ neg_pc' = "done"
            /\ result' = "Completed"
            /\ file_ended' = TRUE
       ELSE UNCHANGED <<neg_pc, result, file_ended>>
    /\ UNCHANGED <<variant, peer_in, peer_closed, neg_reads, transfer_token,
                   file_size, peer_out, file_connected, file_out>>
    /\ UNCHANGED notNeg

\* the read returns 0: the file channel ended
FileEof ==
    /\ neg_pc = "receive"
    /\ neg_pc' = "done"
    /\ file_ended' = TRUE
    /\ result' = IF variant = "tui" THEN "Completed" ELSE BatchOutcome(downloaded)
    /\ UNCHANGED <<variant, peer_in, peer_closed, neg_reads, transfer_token,
                   file_size, peer_out, file_connected, file_out, downloaded>>
    /\ UNCHANGED notNeg

\* the read or the write to disk fails, or (batch) the transfer stalls
FileReadError ==
    /\ neg_pc = "receive"
    /\ Fail
    /\ UNCHANGED <<variant, peer_in, peer_closed, neg_reads, transfer_token,
                   file_size, peer_out, file_connected, file_out, downloaded,
                   file_ended>>
    /\ UNCHANGED notNeg

\* the peer-kind PeerInit and QueueUpload are written, DownloadStarted is sent
NegInit ==
    /\ variant \in {"tui", "batch"}
    /\ neg_pc = "negotiate"
    /\ peer_in = <<>>
    /\ peer_closed = FALSE
    /\ neg_reads = 0
    /\ transfer_token = <<>>
    /\ file_size = download.size
    /\ peer_out = <<PeerInit("P", download.token), QueueUpload(download.filename)>>
    /\ file_connected = FALSE
    /\ file_out = <<>>
    /\ downloaded = 0
    /\ file_ended = FALSE
    /\ result = "none"

NegNext ==
    \/ NegRead
    \/ NegEof
    \/ NegReadError
    \/ NegTimeout
    \/ FileConnect
    \/ FileWriteInit
    \/ FileWriteToken
    \/ FileWriteOffset
    \/ FileCreate
    \/ \E n \in Chunks : FileRead(n)
    \/ FileEof
    \/ FileReadError

(***************************************************************************)
(* Aggregation of search results for track-match (SpotifyTrack) and retry  *)
(* (RetryDownload) searches: the peer connection handlers, the aggregation *)
(* timers and the main loop's search_timeout branch (client.rs).           *)
(***************************************************************************)
AggTokens == 1..MaxAggSearches

Peers == 1..MaxPeers

\* odd connections are ones we opened after ConnectToPeer
\* (handle_peer_connection), even ones were accepted by the listener
\* (handle_incoming_peer)
PathOf(p) == IF p % 2 = 1 THEN "pierced" ELSE "inbound"

UserOf(p) == IF p % 2 = 1 THEN "bob" ELSE "carol"

SearchResultFile(name, size, attrs) ==
    [filename |-> name, size |-> size, attributes |-> attrs]

FileAttribute(code, value) == [code |-> code, value |-> value]

flac == SearchResultFile("a.flac", 30, <<>>)
mp3hi == SearchResultFile("b.mp3", 12, <<FileAttribute(0, 320)>>)
mp3lo == SearchResultFile("c.MP3", 8, <<FileAttribute(1, 200), FileAttribute(0, 128)>>)
txt == SearchResultFile("d.txt", 1, <<>>)
flac320 == SearchResultFile("e.FLAC", 40, <<FileAttribute(0, 320)>>)
ogg == SearchResultFile("f.ogg", 5, <<>>)

\* the result lists a FileSearchResponse may carry
ResultLists == {<<>>, <<txt>>, <<mp3lo>>, <<mp3hi, flac>>}

\* filename.to_lowercase() for the file names above
to_lowercase(name) ==
    CASE name = "a.flac" -> "a.flac"
      [] name = "b.mp3" -> "b.mp3"
      [] name = "c.MP3" -> "c.mp3"
      [] name = "d.txt" -> "d.txt"
      [] name = "e.FLAC" -> "e.flac"
      [] name = "f.ogg" -> "f.ogg"

\* lower.ends_with(ext) for the lower-cased names above
ends_with(lower, ext) ==
    \/ lower \in {"a.flac", "e.flac"} /\ ext = ".flac"
    \/ lower \in {"b.mp3", "c.mp3"} /\ ext = ".mp3"
    \/ lower = "f.ogg" /\ ext = ".ogg"

audio_exts ==
    {".mp3", ".flac", ".m4a", ".ogg", ".opus", ".wav", ".aac", ".wma", ".ape",
     ".alac", ".aiff", ".aif", ".wv", ".mpc"}

AccumulatedResult(user, file) == [username |-> user, file |-> file]

\* Option<u32> as a sequence of length at most one
get_bitrate(attributes) ==
    LET found == SelectSeq(attributes, LAMBDA a : a.code = 0)
    IN  IF found = <<>> THEN <<>> ELSE <<found[1].value>>

unwrap_or(opt, default) == IF opt = <<>> THEN default ELSE opt[1]

\* a closure that orders by the bitrate attribute alone
compare_by_bitrate(a, b) ==
    LET a_bitrate == unwrap_or(get_bitrate(a.file.attributes), 0)
        b_bitrate == unwrap_or(get_bitrate(b.file.attributes), 0)
    IN  IF b_bitrate < a_bitrate THEN "Less"
        ELSE IF b_bitrate > a_bitrate THEN "Greater"
        ELSE "Equal"

\* the closure given to sort_by: "Less" when a sorts before b
compare(a, b) ==
    LET a_bitrate_opt == get_bitrate(a.file.attributes)
        b_bitrate_opt == get_bitrate(b.file.attributes)
        a_is_flac == ends_with(to_lowercase(a.file.filename), ".flac")
        b_is_flac == ends_with(to_lowercase(b.file.filename), ".flac")
        a_has_bitrate == a_bitrate_opt # <<>> \/ a_is_flac
        b_has_bitrate == b_bitrate_opt # <<>> \/ b_is_flac
        a_bitrate == unwrap_or(a_bitrate_opt, 0)
        b_bitrate == unwrap_or(b_bitrate_opt, 0)
    IN  IF a_has_bitrate # b_has_bitrate
        THEN IF a_has_bitrate THEN "Less" ELSE "Greater"
        ELSE IF a_is_flac # b_is_flac
        THEN IF a_is_flac THEN "Less" ELSE "Greater"
        ELSE IF b_bitrate < a_bitrate THEN "Less"
        ELSE IF b_bitrate > a_bitrate THEN "Greater"
        ELSE "Equal"

\* stable insertion of x, which came after every element of sorted
RECURSIVE insert_sorted(_, _)
insert_sorted(sorted, x) ==
    IF sorted = <<>> THEN <<x>>
    ELSE IF compare(x, sorted[Len(sorted)]) = "Less"
    THEN Append(insert_sorted(SubSeq(sorted, 1, Len(sorted) - 1), x),
                sorted[Len(sorted)])
    ELSE Append(sorted, x)

\* Vec::sort_by: a stable sort
RECURSIVE sort_by(_)
sort_by(s) ==
    IF s = <<>> THEN <<>>
    ELSE insert_sorted(sort_by(SubSeq(s, 1, Len(s) - 1)), s[Len(s)])

\* mutant of pick_best_file: the first result, whatever it is
pick_first_file(results) ==
    IF results = <<>> THEN <<>> ELSE <<results[1]>>

\* Option<&AccumulatedResult> as a sequence of length at most one
pick_best_file(results) ==
    LET is_audio(r) == \E ext \in audio_exts :
                           ends_with(to_lowercase(r.file.filename), ext)
        candidates == sort_by(SelectSeq(results, is_audio))
    IN  IF candidates = <<>> THEN <<>> ELSE <<candidates[1]>>

MatchedFile(best) ==
    [username |-> best.username, filename |-> best.file.filename,
     size |-> best.file.size, bitrate |-> get_bitrate(best.file.attributes)]

\* HashMap insert and remove
Insert(map, key, value) ==
    [k \in DOMAIN map \cup {key} |-> IF k = key THEN value ELSE map[k]]

Remove(map, key) == [k \in DOMAIN map \ {key} |-> map[k]]

PeerIdle == [pc |-> "idle", token |-> 0, results |-> <<>>]

\* execute_search, first critical section: the token and the maps (the rate
\* limiter's share of it is ExecRecord)
AggSearch(kind) ==
    /\ TOKEN_COUNTER <= MaxAggSearches
    /\ LET token == next_token
       IN  /\ TOKEN_COUNTER' = TOKEN_COUNTER + 1
           /\ pending_searches' = pending_searches \cup {token}
           /\ spotify_track_searches' =
                IF kind = "SpotifyTrack"
                THEN Insert(spotify_track_searches, token,
                            [track_index |-> token - 1, results |-> <<>>])
                ELSE spotify_track_searches
           /\ retry_searches' =
                IF kind = "RetryDownload"
                THEN Insert(retry_searches, token,
                            [download_id |-> token, results |-> <<>>])
                ELSE retry_searches
           /\ searches' = Insert(searches, token, kind)
    /\ UNCHANGED <<timers, search_timeout_rx, peers, responses, agg_events, armed,
                   processed, collected, fired>>
    /\ UNCHANGED notAgg

\* a FileSearchResponse is decoded: pending_searches.contains_key(&token)
PeerRecv(p, token, results) ==
    /\ peers[p].pc = "idle"
    /\ responses < MaxResponses
    /\ responses' = responses + 1
    /\ peers' = [peers EXCEPT ![p] =
                    IF token \in pending_searches /\ results # <<>>
                    THEN [pc |-> "kind", token |-> token, results |-> results]
                    ELSE PeerIdle]
    /\ UNCHANGED <<pending_searches, spotify_track_searches, retry_searches,
                   searches, timers, search_timeout_rx, agg_events, armed,
                   processed, collected, fired>>
    /\ UNCHANGED <<TOKEN_COUNTER, notAgg>>

\* the second critical section: which kind of search the token belongs to
PeerKind(p) ==
    /\ peers[p].pc = "kind"
    /\ LET is_spotify_search == peers[p].token \in DOMAIN spotify_track_searches
           is_retry_search == peers[p].token \in DOMAIN retry_searches
       IN  peers' = [peers EXCEPT ![p].pc =
                IF is_spotify_search THEN "spotify"
                ELSE IF PathOf(p) = "pierced" /\ is_retry_search THEN "retry"
                ELSE "plain"]
    /\ UNCHANGED <<pending_searches, spotify_track_searches, retry_searches,
                   searches, timers, search_timeout_rx, responses, agg_events,
                   armed, processed, collected, fired>>
    /\ UNCHANGED <<TOKEN_COUNTER, notAgg>>

\* the body shared by accumulate_search_results and accumulate_retry_results
\* on the map they are given: push under the lock, then spawn the timer
accumulate(map, p) ==
    LET token == peers[p].token
        found == token \in DOMAIN map
        was_empty == found /\ map[token].results = <<>>
        pushed == [i \in 1..Len(peers[p].results) |->
                      AccumulatedResult(UserOf(p), peers[p].results[i])]
    IN  [map |-> IF found
                 THEN [map EXCEPT ![token].results = @ \o pushed]
                 ELSE map,
         pushed |-> IF found THEN pushed ELSE <<>>,
         should_start_timer |-> was_empty]

Accumulated(p, acc) ==
    LET token == peers[p].token
    IN  /\ timers' = IF acc.should_start_timer
                     THEN [timers EXCEPT ![token] = @ + 1] ELSE timers
        /\ armed' = IF acc.should_start_timer
                    THEN [armed EXCEPT ![token] = @ + 1] ELSE armed
        /\ collected' = [collected EXCEPT ![token] = @ \o acc.pushed]
        /\ processed' = [processed EXCEPT ![token] = @ + 1]
        /\ peers' = [peers EXCEPT ![p] = PeerIdle]

accumulate_search_results(p) ==
    /\ peers[p].pc = "spotify"
    /\ LET acc == accumulate(spotify_track_searches, p)
       IN  /\ spotify_track_searches' = acc.map
           /\ Accumulated(p, acc)
    /\ UNCHANGED <<pending_searches, retry_searches, searches, search_timeout_rx,
                   responses, agg_events, fired>>
    /\ UNCHANGED <<TOKEN_COUNTER, notAgg>>

accumulate_retry_results(p) ==
    /\ peers[p].pc = "retry"
    /\ LET acc == accumulate(retry_searches, p)
       IN  /\ retry_searches' = acc.map
           /\ Accumulated(p, acc)
    /\ UNCHANGED <<pending_searches, spotify_track_searches, searches,
                   search_timeout_rx, responses, agg_events, fired>>
    /\ UNCHANGED <<TOKEN_COUNTER, notAgg>>

\* neither kind: the result goes to the App as an interactive SearchResult
PeerSearchResult(p) ==
    /\ peers[p].pc = "plain"
    /\ agg_events' = Append(agg_events,
                            [type |-> "SearchResult", username |-> UserOf(p),
                             files |-> peers[p].results])
    /\ processed' = [processed EXCEPT ![peers[p].token] = @ + 1]
    /\ peers' = [peers EXCEPT ![p] = PeerIdle]
    /\ UNCHANGED <<pending_searches, spotify_track_searches, retry_searches,
                   searches, timers, search_timeout_rx, responses, armed,
                   collected, fired>>
    /\ UNCHANGED <<TOKEN_COUNTER, notAgg>>

\* a spawned timer task: sleep(SEARCH_AGGREGATION_TIMEOUT), then tx.send(token)
TimerFire(token) ==
    /\ timers[token] > 0
    /\ timers' = [timers EXCEPT ![token] = @ - 1]
    /\ search_timeout_rx' = Append(search_timeout_rx, token)
    /\ UNCHANGED <<pending_searches, spotify_track_searches, retry_searches,
                   searches, peers, responses, agg_events, armed, processed,
                   collected, fired>>
    /\ UNCHANGED <<TOKEN_COUNTER, notAgg>>

\* a finalizer that forgets the track-match entry it has finalized
finalize_search_leaves_entry(token, st) ==
    IF token \in DOMAIN st.spotify_track_searches
    THEN [st EXCEPT !.pending_searches = @ \ {token}]
    ELSE st

\* st is the part of ClientState the finalizers touch, with the events sent
finalize_search(token, st) ==
    IF token \in DOMAIN st.spotify_track_searches
    THEN LET pending == st.spotify_track_searches[token]
             best == pick_best_file(pending.results)
         IN  [st EXCEPT
                !.spotify_track_searches = Remove(@, token),
                !.pending_searches = @ \ {token},
                !.events = Append(@,
                    IF best # <<>>
                    THEN [type |-> "SpotifyTrackMatched",
                          track_index |-> pending.track_index,
                          matched_file |-> MatchedFile(best[1])]
                    ELSE [type |-> "NoAudioMatch",
                          track_index |-> pending.track_index,
                          result_count |-> Len(pending.results)])]
    ELSE st

finalize_retry_search(token, st) ==
    IF token \in DOMAIN st.retry_searches
    THEN LET pending == st.retry_searches[token]
             best == pick_best_file(pending.results)
         IN  [st EXCEPT
                !.retry_searches = Remove(@, token),
                !.pending_searches = @ \ {token},
                !.events = Append(@,
                    IF best # <<>>
                    THEN [type |-> "RetryDownloadMatched",
                          download_id |-> pending.download_id,
                          matched_file |-> MatchedFile(best[1])]
                    ELSE [type |-> "RetryDownloadFailed",
                          download_id |-> pending.download_id])]
    ELSE st

\* the main loop's search_timeout_rx branch
MainTimeout ==
    /\ search_timeout_rx # <<>>
    /\ LET token == Head(search_timeout_rx)
           st == finalize_retry_search(token, finalize_search(token,
                    [spotify_track_searches |-> spotify_track_searches,
                     retry_searches |-> retry_searches,
                     pending_searches |-> pending_searches,
                     events |-> agg_events]))
       IN  /\ spotify_track_searches' = st.spotify_track_searches
           /\ retry_searches' = st.retry_searches
           /\ pending_searches' = st.pending_searches
           /\ agg_events' = st.events
           /\ fired' = [fired EXCEPT ![token] = @ + 1]
    /\ search_timeout_rx' = Tail(search_timeout_rx)
    /\ UNCHANGED <<searches, timers, peers, responses, armed, processed, collected>>
    /\ UNCHANGED <<TOKEN_COUNTER, notAgg>>

AggInit ==
    /\ pending_searches = {}
    /\ spotify_track_searches = <<>>
    /\ retry_searches = <<>>
    /\ searches = <<>>
    /\ timers = [t \in AggTokens |-> 0]
    /\ search_timeout_rx = <<>>
    /\ peers = [p \in Peers |-> PeerIdle]
    /\ responses = 0
    /\ agg_events = <<>>
    /\ armed = [t \in AggTokens |-> 0]
    /\ processed = [t \in AggTokens |-> 0]
    /\ collected = [t \in AggTokens |-> <<>>]
    /\ fired = [t \in AggTokens |-> 0]

AggNext ==
    \/ \E kind \in {"Regular", "SpotifyTrack", "RetryDownload"} : AggSearch(kind)
    \/ \E p \in Peers, token \in AggTokens, results \in ResultLists :
          PeerRecv(p, token, results)
    \/ \E p \in Peers : PeerKind(p)
    \/ \E p \in Peers : accumulate_search_results(p)
    \/ \E p \in Peers : accumulate_retry_results(p)
    \/ \E p \in Peers : PeerSearchResult(p)
    \/ \E token \in AggTokens : TimerFire(token)
    \/ MainTimeout

(***************************************************************************)
(* The main loop's read branch on the server channel (client.rs): bytes    *)
(* arrive in arbitrary pieces, complete frames are cut from read_buf,      *)
(* decoded and given to handle_server_response one after the other.        *)
(***************************************************************************)
\* ServerCode values; UnknownCode is a code ServerCode::try_from rejects
ParentMinSpeedCode == 83
CheckPrivilegesCode == 92
UnknownCode == 9999
LoginCode == 1

\* MessageWrite::write_message: length prefix, code, payload
write_message(code, payload) ==
    put_u32_le(4 + Len(payload)) \o put_u32_le(code) \o payload

\* u32::from_le_bytes of the first four bytes of b
from_le_bytes(b) == b[1] + 256 * b[2] + 65536 * b[3] + 16777216 * b[4]

\* the frames the server may send; serial tells them apart
ServerFrame(kind, serial) ==
    CASE kind = "ParentMinSpeed" -> write_message(ParentMinSpeedCode, put_u32_le(serial))
      [] kind = "CheckPrivileges" -> write_message(CheckPrivilegesCode, put_u32_le(serial))
      [] kind = "Unknown" -> write_message(UnknownCode, <<>>)
      [] kind = "LoginSuccess" ->
            write_message(LoginCode, <<1>> \o put_u32_le(0) \o <<0, 0, 0, 0>>
                                     \o put_u32_le(0) \o <<0>>)
      [] kind = "LoginFailure" -> write_message(LoginCode, <<0>> \o put_u32_le(0))

ParseError == [type |-> "Error"]

\* String::read_from: a u32 length, then that many bytes
read_string(buf) ==
    IF Len(buf) < 4 THEN [ok |-> FALSE]
    ELSE LET len == from_le_bytes(buf)
         IN  IF Len(buf) - 4 < len THEN [ok |-> FALSE]
             ELSE [ok |-> TRUE, value |-> SubSeq(buf, 5, 4 + len),
                   rest |-> SubSeq(buf, 5 + len, Len(buf))]

\* the ServerCode::Login arm of ServerResponse::read_with_code; the reason
\* strings the model sends are not INVALIDUSERNAME, so no detail is read
read_login(payload) ==
    IF Len(payload) < 1 THEN ParseError
    ELSE IF payload[1] # 0
    THEN LET greet == read_string(Tail(payload))
         IN  IF ~greet.ok \/ Len(greet.rest) < 4 THEN ParseError
             ELSE LET password_hash == read_string(SubSeq(greet.rest, 5, Len(greet.rest)))
                  IN  IF ~password_hash.ok \/ Len(password_hash.rest) < 1
                      THEN ParseError
                      ELSE [type |-> "LoginSuccess", greet |-> greet.value,
                            own_ip |-> SubSeq(greet.rest, 1, 4),
                            password_hash |-> password_hash.value,
                            is_supporter |-> password_hash.rest[1] # 0]
    ELSE LET reason_str == read_string(Tail(payload))
         IN  IF ~reason_str.ok THEN ParseError
             ELSE [type |-> "LoginFailure", reason |-> reason_str.value,
                   detail |-> <<>>]

\* read_server_message on one frame, length prefix included
read_server_message(msg_buf) ==
    IF Len(msg_buf) < 8 THEN ParseError
    ELSE LET code == from_le_bytes(SubSeq(msg_buf, 5, 8))
             payload == SubSeq(msg_buf, 9, Len(msg_buf))
         IN  IF code = LoginCode THEN read_login(payload)
             ELSE IF code = ParentMinSpeedCode
             THEN IF Len(payload) < 4 THEN ParseError
                  ELSE [type |-> "ParentMinSpeed", speed |-> from_le_bytes(payload)]
             ELSE IF code = CheckPrivilegesCode
             THEN IF Len(payload) < 4 THEN ParseError
                  ELSE [type |-> "CheckPrivileges", time_left |-> from_le_bytes(payload)]
             ELSE ParseError

\* mutant of process_frames: the frames of one read are handled last first
RECURSIVE process_frames_last_first(_, _)
process_frames_last_first(buf, log) ==
    IF Len(buf) < 4 THEN [read_buf |-> buf, log |-> log]
    ELSE LET msg_len == from_le_bytes(buf)
         IN  IF Len(buf) < 4 + msg_len THEN [read_buf |-> buf, log |-> log]
             ELSE LET rest == process_frames_last_first(
                                  SubSeq(buf, 5 + msg_len, Len(buf)), log)
                  IN  [rest EXCEPT !.log = Append(@,
                          read_server_message(SubSeq(buf, 1, 4 + msg_len)))]

\* the while loop: split_to(4 + msg_len), decode, handle_server_response or
\* the Parse error event, in the order the frames lie in read_buf
RECURSIVE process_frames(_, _)
process_frames(buf, log) ==
    IF Len(buf) < 4 THEN [read_buf |-> buf, log |-> log]
    ELSE LET msg_len == from_le_bytes(buf)
         IN  IF Len(buf) < 4 + msg_len THEN [read_buf |-> buf, log |-> log]
             ELSE process_frames(SubSeq(buf, 5 + msg_len, Len(buf)),
                                 Append(log, read_server_message(
                                                 SubSeq(buf, 1, 4 + msg_len))))

\* the server writes one more frame
SrvSend(kind) ==
    /\ srv_open
    /\ Len(srv_sent) < MaxFrames
    /\ srv_sent' = Append(srv_sent, [kind |-> kind, serial |-> Len(srv_sent) + 1])
    /\ srv_wire' = srv_wire \o ServerFrame(kind, Len(srv_sent) + 1)
    /\ UNCHANGED <<read_buf, srv_log, srv_reads, srv_open>>
    /\ UNCHANGED notSrv

\* read_buf(&mut read_buf) returns n > 0 bytes, then the while loop runs
SrvRead(n) ==
    /\ srv_open
    /\ n <= Len(srv_wire)
    /\ LET done == process_frames(read_buf \o SubSeq(srv_wire, 1, n), srv_log)
       IN  /\ read_buf' = done.read_buf
           /\ srv_log' = done.log
    /\ srv_wire' = SubSeq(srv_wire, n + 1, Len(srv_wire))
    /\ srv_reads' = srv_reads + 1
    /\ UNCHANGED <<srv_sent, srv_open>>
    /\ UNCHANGED notSrv

\* the server closes the channel: the read returns 0 and the loop breaks
SrvClose ==
    /\ srv_open
    /\ srv_wire = <<>>
    /\ srv_open' = FALSE
    /\ UNCHANGED <<srv_sent, srv_wire, read_buf, srv_log, srv_reads>>
    /\ UNCHANGED notSrv

SrvInit ==
    /\ srv_sent = <<>>
    /\ srv_wire = <<>>
    /\ read_buf = <<>>
    /\ srv_log = <<>>
    /\ srv_reads = 0
    /\ srv_open = TRUE

SrvNext ==
    \/ \E kind \in {"ParentMinSpeed", "CheckPrivileges", "Unknown"} : SrvSend(kind)
    \/ \E n \in 1..(12 * MaxFrames) : SrvRead(n)
    \/ SrvClose

(***************************************************************************)
(* Login and the session that follows, on the bytes of the server channel: *)
(* the wait for the login reply (run_client in client.rs, connect_once in  *)
(* debug.rs), SetStatus and SetWaitPort, then the TUI's main loop until    *)
(* the channel fails.                                                      *)
(***************************************************************************)
listen_port == 50000

SetStatus(status) == [type |-> "SetStatus", status |-> status]

SetWaitPort(port) ==
    [type |-> "SetWaitPort", port |-> port, obfuscation_type |-> <<>>,
     obfuscated_port |-> <<>>]

LoginReplies == {"LoginSuccess", "LoginFailure"}

\* the client (TUI or batch) connects, writes Login and starts its login loop
\* with an empty read_buf
LgLogin(client) ==
    /\ lg_pc = "start"
    /\ lg_variant' = client
    /\ lg_pc' = "wait"
    /\ lg_read_buf' = <<>>
    /\ UNCHANGED <<lg_sent, lg_wire, lg_cause, lg_out, lg_main_buf, lg_decoded,
                   lg_handled, lg_lost>>
    /\ UNCHANGED notLogin

\* the server writes one more frame; it answers a Login once
LgSend(kind) ==
    /\ lg_pc # "start"
    /\ ~lg_lost
    /\ Len(lg_sent) < MaxLoginFrames
    /\ kind \in LoginReplies => \A i \in 1..Len(lg_sent) : lg_sent[i].kind \notin LoginReplies
    /\ lg_sent' = Append(lg_sent, [kind |-> kind, serial |-> Len(lg_sent) + 1])
    /\ lg_wire' = lg_wire \o ServerFrame(kind, Len(lg_sent) + 1)
    /\ UNCHANGED <<lg_variant, lg_read_buf, lg_pc, lg_cause, lg_out, lg_main_buf,
                   lg_decoded, lg_handled, lg_lost>>
    /\ UNCHANGED notLogin

\* the login ends with Err
LgFail(cause) ==
    /\ lg_pc' = "failed"
    /\ lg_cause' = cause

\* one pass of the login loop: read_buf returns n > 0 bytes, then at most one
\* complete frame is cut from read_buf and decoded
LgRead(n) ==
    /\ lg_pc = "wait"
    /\ n <= Len(lg_wire)
    /\ lg_wire' = SubSeq(lg_wire, n + 1, Len(lg_wire))
    /\ LET buf == lg_read_buf \o SubSeq(lg_wire, 1, n)
           complete == Len(buf) >= 4 /\ Len(buf) >= 4 + from_le_bytes(buf)
           msg_len == from_le_bytes(buf)
           msg_buf == SubSeq(buf, 1, 4 + msg_len)
           msg == read_server_message(msg_buf)
       IN  IF ~complete
           THEN /\ lg_read_buf' = buf
                /\ UNCHANGED <<lg_pc, lg_cause, lg_decoded>>
           ELSE /\ lg_read_buf' = SubSeq(buf, 5 + msg_len, Len(buf))
                /\ lg_decoded' = Append(lg_decoded, msg_buf)
                /\ IF msg.type = "LoginSuccess"
                   THEN lg_pc' = "set_status" /\ lg_cause' = lg_cause
                   ELSE IF msg.type = "LoginFailure" THEN LgFail("LoginFailure")
                   ELSE IF msg.type = "Error" /\ lg_variant = "tui" THEN LgFail("parse")
                   ELSE UNCHANGED <<lg_pc, lg_cause>>
    /\ UNCHANGED <<lg_variant, lg_sent, lg_out, lg_main_buf, lg_handled, lg_lost>>
    /\ UNCHANGED notLogin

\* the read returns 0, fails, or (batch) stays silent for 30 seconds
LgReadFails(cause) ==
    /\ lg_pc = "wait"
    /\ lg_wire = <<>>
    /\ cause = "timeout" => lg_variant = "batch"
    /\ LgFail(cause)
    /\ UNCHANGED <<lg_variant, lg_sent, lg_wire, lg_read_buf, lg_out, lg_main_buf,
                   lg_decoded, lg_handled, lg_lost>>
    /\ UNCHANGED notLogin

\* write_all of SetStatus(Online); connect_once returns after it
LgSetStatus ==
    /\ lg_pc = "set_status"
    /\ \/ /\ lg_out' = Append(lg_out, SetStatus("Online"))
          /\ lg_pc' = IF lg_variant = "tui" THEN "set_wait_port" ELSE "logged_in"
          /\ lg_cause' = lg_cause
       \/ /\ LgFail("io")
          /\ lg_out' = lg_out
    /\ UNCHANGED <<lg_variant, lg_sent, lg_wire, lg_read_buf, lg_main_buf,
                   lg_decoded, lg_handled, lg_lost>>
    /\ UNCHANGED notLogin

\* write_all of SetWaitPort(listen_port); the main loop starts with a new,
\* empty read_buf
LgSetWaitPort ==
    /\ lg_pc = "set_wait_port"
    /\ \/ /\ lg_out' = Append(lg_out, SetWaitPort(listen_port))
          /\ lg_pc' = "main"
          /\ lg_cause' = lg_cause
       \/ /\ LgFail("io")
          /\ lg_out' = lg_out
    /\ lg_main_buf' = <<>>
    /\ UNCHANGED <<lg_variant, lg_sent, lg_wire, lg_read_buf, lg_decoded,
                   lg_handled, lg_lost>>
    /\ UNCHANGED notLogin

\* the buffers split_to cuts from buf in the main loop's while loop
RECURSIVE split_frames(_)
split_frames(buf) ==
    IF Len(buf) < 4 \/ Len(buf) < 4 + from_le_bytes(buf) THEN <<>>
    ELSE <<SubSeq(buf, 1, 4 + from_le_bytes(buf))>>
         \o split_frames(SubSeq(buf, 5 + from_le_bytes(buf), Len(buf)))

\* the main loop's read branch
LgMainRead(n) ==
    /\ lg_pc = "main"
    /\ n <= Len(lg_wire)
    /\ lg_wire' = SubSeq(lg_wire, n + 1, Len(lg_wire))
    /\ LET buf == lg_main_buf \o SubSeq(lg_wire, 1, n)
           done == process_frames(buf, lg_handled)
       IN  /\ lg_main_buf' = done.read_buf
           /\ lg_handled' = done.log
           /\ lg_decoded' = lg_decoded \o split_frames(buf)
    /\ UNCHANGED <<lg_variant, lg_sent, lg_read_buf, lg_pc, lg_cause, lg_out, lg_lost>>
    /\ UNCHANGED notLogin

\* the read returns 0 (break) or fails (result?): the tasks are aborted and
\* run_client returns; main only prints the error
LgMainLost ==
    /\ lg_pc = "main"
    /\ lg_wire = <<>>
    /\ lg_lost' = TRUE
    /\ lg_pc' = "ended"
    /\ UNCHANGED <<lg_variant, lg_sent, lg_wire, lg_read_buf, lg_cause, lg_out,
                   lg_main_buf, lg_decoded, lg_handled>>
    /\ UNCHANGED notLogin

\* nothing is connected yet
LoginInit ==
    /\ lg_variant = ""
    /\ lg_sent = <<>>
    /\ lg_wire = <<>>
    /\ lg_read_buf = <<>>
    /\ lg_pc = "start"
    /\ lg_cause = ""
    /\ lg_out = <<>>
    /\ lg_main_buf = <<>>
    /\ lg_decoded = <<>>
    /\ lg_handled = <<>>
    /\ lg_lost = FALSE

LoginNext ==
    \/ \E client \in {"tui", "batch"} : LgLogin(client)
    \/ \E kind \in {"ParentMinSpeed", "Unknown", "LoginSuccess", "LoginFailure"} :
          LgSend(kind)
    \/ \E n \in 1..Len(lg_wire) : LgRead(n)
    \/ \E cause \in {"closed", "io", "timeout"} : LgReadFails(cause)
    \/ LgSetStatus
    \/ LgSetWaitPort
    \/ \E n \in 1..Len(lg_wire) : LgMainRead(n)
    \/ LgMainLost

(***************************************************************************)
(* Browsing a peer: connect_to_peer_and_browse has written PeerInit and    *)
(* SharedFileListRequest and reads the peer's frames until the listing.    *)
(* The compressed listing is one opaque byte.                              *)
(***************************************************************************)
SharedFileListRequestCode == 4
SharedFileListResponseCode == 5

PeerFrame(kind, serial) ==
    CASE kind = "SharedFileListRequest" -> write_message(SharedFileListRequestCode, <<>>)
      [] kind = "SharedFileListResponse" ->
            write_message(SharedFileListResponseCode, <<serial>>)
      [] kind = "Unknown" -> write_message(UnknownCode, <<serial>>)

\* read_peer_message: the length is skipped, PeerCode::try_from rejects a
\* code that is not a PeerCode
read_peer_message(msg_buf) ==
    IF Len(msg_buf) < 8 THEN ParseError
    ELSE LET code == from_le_bytes(SubSeq(msg_buf, 5, 8))
             payload == SubSeq(msg_buf, 9, Len(msg_buf))
         IN  IF code = SharedFileListRequestCode THEN [type |-> "SharedFileListRequest"]
             ELSE IF code = SharedFileListResponseCode
             THEN IF payload = <<>> THEN ParseError
                  ELSE [type |-> "SharedFileListResponse", directories |-> payload]
             ELSE ParseError

BrSend(kind) ==
    /\ Len(br_sent) < MaxBrowseFrames
    /\ br_sent' = Append(br_sent, [kind |-> kind, serial |-> Len(br_sent) + 1])
    /\ br_wire' = br_wire \o PeerFrame(kind, Len(br_sent) + 1)
    /\ UNCHANGED <<br_read_buf, br_pc, br_cause, br_skipped, br_directories>>
    /\ UNCHANGED notBrowse

\* one pass of the loop: a read of n > 0 bytes, then at most one frame
BrRead(n) ==
    /\ br_pc = "read"
    /\ n <= Len(br_wire)
    /\ br_wire' = SubSeq(br_wire, n + 1, Len(br_wire))
    /\ LET buf == br_read_buf \o SubSeq(br_wire, 1, n)
           complete == Len(buf) >= 4 /\ Len(buf) >= 4 + from_le_bytes(buf)
           msg_len == from_le_bytes(buf)
           msg == read_peer_message(SubSeq(buf, 1, 4 + msg_len))
       IN  IF ~complete
           THEN /\ br_read_buf' = buf
                /\ UNCHANGED <<br_pc, br_cause, br_skipped, br_directories>>
           ELSE /\ br_read_buf' = SubSeq(buf, 5 + msg_len, Len(buf))
                /\ IF msg.type = "SharedFileListResponse"
                   THEN /\ br_pc' = "done"
                        /\ br_directories' = msg.directories
                        /\ UNCHANGED <<br_cause, br_skipped>>
                   ELSE IF msg.type = "Error"
                   THEN /\ br_pc' = "failed"
                        /\ br_cause' = "parse"
                        /\ UNCHANGED <<br_skipped, br_directories>>
                   ELSE /\ br_skipped' = br_skipped + 1
                        /\ UNCHANGED <<br_pc, br_cause, br_directories>>
    /\ UNCHANGED br_sent
    /\ UNCHANGED notBrowse

\* the read returns 0: Err("Connection closed")
BrClosed ==
    /\ br_pc = "read"
    /\ br_wire = <<>>
    /\ br_pc' = "failed"
    /\ br_cause' = "closed"
    /\ UNCHANGED <<br_sent, br_wire, br_read_buf, br_skipped, br_directories>>
    /\ UNCHANGED notBrowse

BrowseInit ==
    /\ br_sent = <<>>
    /\ br_wire = <<>>
    /\ br_read_buf = <<>>
    /\ br_pc = "read"
    /\ br_cause = ""
    /\ br_skipped = 0
    /\ br_directories = <<>>

BrowseNext ==
    \/ \E kind \in {"SharedFileListRequest", "SharedFileListResponse", "Unknown"} :
          BrSend(kind)
    \/ \E n \in 1..Len(br_wire) : BrRead(n)
    \/ BrClosed

(***************************************************************************)
(* Connecting with backoff: connect_with_retry in debug.rs, and the same   *)
(* loop in the indexer's connect.                                          *)
(***************************************************************************)
max_attempts == 5

\* errors connect_once can return
ConnectErrors ==
    {"Connection closed during login (server may be rate limiting)",
     "Read error: Connection reset by peer (os error 104)",
     "Timeout waiting for login response",
     "Login failed: InvalidPassword - None"}

\* err_str.contains("rate limit") || err_str.contains("reset")
contains_rate_limit_or_reset(err_str) ==
    err_str \in {"Connection closed during login (server may be rate limiting)",
                 "Read error: Connection reset by peer (os error 104)"}

min(a, b) == IF a <= b THEN a ELSE b

delay(k, err_str) ==
    IF contains_rate_limit_or_reset(err_str) THEN 30 * k
    ELSE min(10 * 2 ^ min(k - 1, 2), 60)

\* attempt += 1; connect_once returns Ok
ConnectOk ==
    /\ bo_pc = "connect"
    /\ attempt' = attempt + 1
    /\ bo_pc' = "connected"
    /\ UNCHANGED <<bo_errors, bo_delays>>
    /\ UNCHANGED notBackoff

\* attempt += 1; connect_once returns Err(e): give up at max_attempts, else
\* compute the delay and sleep
ConnectErr(e) ==
    /\ bo_pc = "connect"
    /\ attempt' = attempt + 1
    /\ bo_errors' = Append(bo_errors, e)
    /\ IF attempt' >= max_attempts
       THEN /\ bo_pc' = "gave_up"
            /\ UNCHANGED bo_delays
       ELSE /\ bo_pc' = "sleep"
            /\ bo_delays' = Append(bo_delays, delay(attempt', e))
    /\ UNCHANGED notBackoff

\* tokio::time::sleep(delay) is over
Wake ==
    /\ bo_pc = "sleep"
    /\ bo_pc' = "connect"
    /\ UNCHANGED <<attempt, bo_errors, bo_delays>>
    /\ UNCHANGED notBackoff

BackoffInit ==
    /\ attempt = 0
    /\ bo_pc = "connect"
    /\ bo_errors = <<>>
    /\ bo_delays = <<>>

BackoffNext ==
    \/ ConnectOk
    \/ \E e \in ConnectErrors : ConnectErr(e)
    \/ Wake

(***************************************************************************)
(* The batch downloader's loop over the tracks (main in debug.rs): each    *)
(* round takes the first Pending track, searches for it and tries the      *)
(* candidates in turn.                                                     *)
(***************************************************************************)
MAX_RETRIES == 3

Tracks == 1..MaxTracks

\* downloads.iter().position(|d| Pending && d.retry_count <= MAX_RETRIES)
PendingTracks ==
    {i \in Tracks : bt_downloads[i].status = "Pending"
                    /\ bt_downloads[i].retry_count <= MAX_RETRIES}

pending_idx == CHOOSE i \in PendingTracks : \A j \in PendingTracks : i <= j

\* retry_count += 1; Failed when it exceeds MAX_RETRIES, else Pending again
count_retry(d) ==
    [status |-> IF d.retry_count + 1 > MAX_RETRIES THEN "Failed" ELSE "Pending",
     retry_count |-> d.retry_count + 1]

BtCountRetry ==
    /\ bt_downloads' = [bt_downloads EXCEPT ![bt_idx] = count_retry(@)]
    /\ bt_failed' = IF count_retry(bt_downloads[bt_idx]).status = "Failed"
                    THEN bt_failed + 1 ELSE bt_failed

\* the head of the loop: break when nothing is pending, else start a round
BtPick ==
    /\ bt_pc = "pick"
    /\ IF PendingTracks = {}
       THEN /\ bt_pc' = "done"
            /\ UNCHANGED <<bt_downloads, bt_idx, bt_rounds>>
       ELSE /\ bt_idx' = pending_idx
            /\ bt_downloads' = [bt_downloads EXCEPT ![pending_idx].status = "Searching"]
            /\ bt_rounds' = [bt_rounds EXCEPT ![pending_idx] = @ + 1]
            /\ bt_pc' = "search"
    /\ UNCHANGED <<bt_candidates, bt_completed, bt_failed, bt_search_errors>>
    /\ UNCHANGED notBatch

\* client.search fails; the client reconnects (the track is Pending again
\* and its retry_count is not touched) or the reconnect fails too
BtSearchErr(reconnected) ==
    /\ bt_pc = "search"
    /\ bt_search_errors < MaxSearchErrors
    /\ bt_search_errors' = bt_search_errors + 1
    /\ IF reconnected
       THEN /\ bt_downloads' = [bt_downloads EXCEPT ![bt_idx].status = "Pending"]
            /\ UNCHANGED bt_failed
       ELSE BtCountRetry
    /\ bt_pc' = "pick"
    /\ UNCHANGED <<bt_idx, bt_candidates, bt_completed, bt_rounds>>
    /\ UNCHANGED notBatch

\* client.search returns; pick_best_files gives n candidates
BtSearchOk(n) ==
    /\ bt_pc = "search"
    /\ IF n = 0
       THEN /\ BtCountRetry
            /\ bt_pc' = "pick"
            /\ UNCHANGED bt_candidates
       ELSE /\ bt_candidates' = n
            /\ bt_downloads' = [bt_downloads EXCEPT ![bt_idx].status = "Downloading"]
            /\ bt_pc' = "download"
            /\ UNCHANGED bt_failed
    /\ UNCHANGED <<bt_idx, bt_completed, bt_rounds, bt_search_errors>>
    /\ UNCHANGED notBatch

\* client.download_file for the next candidate
BtDownload(ok) ==
    /\ bt_pc = "download"
    /\ IF ok
       THEN /\ bt_downloads' = [bt_downloads EXCEPT ![bt_idx].status = "Completed"]
            /\ bt_completed' = bt_completed + 1
            /\ bt_candidates' = 0
            /\ bt_pc' = "pick"
            /\ UNCHANGED bt_failed
       ELSE /\ bt_candidates' = bt_candidates - 1
            /\ UNCHANGED bt_completed
            /\ IF bt_candidates = 1
               THEN BtCountRetry /\ bt_pc' = "pick"
               ELSE UNCHANGED <<bt_downloads, bt_failed, bt_pc>>
    /\ UNCHANGED <<bt_idx, bt_rounds, bt_search_errors>>
    /\ UNCHANGED notBatch

BatchInit ==
    /\ bt_downloads = [i \in Tracks |-> [status |-> "Pending", retry_count |-> 0]]
    /\ bt_pc = "pick"
    /\ bt_idx = 0
    /\ bt_candidates = 0
    /\ bt_completed = 0
    /\ bt_failed = 0
    /\ bt_rounds = [i \in Tracks |-> 0]
    /\ bt_search_errors = 0

BatchNext ==
    \/ BtPick
    \/ \E reconnected \in BOOLEAN : BtSearchErr(reconnected)
    \/ \E n \in 0..MaxSources : BtSearchOk(n)
    \/ \E ok \in BOOLEAN : BtDownload(ok)

(***************************************************************************)
(* next_token: TOKEN_COUNTER.fetch_add(1, SeqCst) on an AtomicU32 that     *)
(* starts at 1.  A u32 is kept as <<high, low>>, two 16-bit halves.  The   *)
(* tasks call next_token in any interleaving; a run of n calls by one task *)
(* is one step, so that the whole range of the counter is reached.         *)
(***************************************************************************)
Half == 2 ^ 16

NoToken == <<-1, 0>>

\* u32 wrapping addition
wrapping_add(a, n) ==
    <<(a[1] + n[1] + (a[2] + n[2]) \div Half) % Half, (a[2] + n[2]) % Half>>

less(a, b) == a[1] < b[1] \/ (a[1] = b[1] /\ a[2] < b[2])

larger(a, b) == IF less(a, b) THEN b ELSE a

\* n - 1 for n >= 1
pred(n) == IF n[2] > 0 THEN <<n[1], n[2] - 1>> ELSE <<n[1] - 1, Half - 1>>

\* the counter after n calls of fetch_add(1)
fetch_add_no_store(counter, n) == counter

fetch_add(counter, n) == wrapping_add(counter, n)

\* how many calls a task makes in a row
Runs == {<<0, 1>>, <<0, 2>>, <<0, Half - 1>>, <<Half - 1, 0>>}

TokenTasks == 1..MaxTokenTasks

\* task t calls next_token n times in a row and keeps the last token
NextToken(t, n) ==
    /\ tk_steps < MaxTokenRuns
    /\ tk_steps' = tk_steps + 1
    /\ token_counter' = fetch_add(token_counter, n)
    /\ tk_calls' = <<tk_calls[1] + n[1] + (tk_calls[2] + n[2]) \div Half,
                     (tk_calls[2] + n[2]) % Half>>
    /\ tk_first' = token_counter
    /\ tk_last' = wrapping_add(token_counter, pred(n))
    /\ tk_prev_max' = tk_max
    /\ tk_max' = IF less(tk_last', tk_first') THEN <<Half - 1, Half - 1>>
                 ELSE larger(tk_max, tk_last')
    /\ tk_held' = [tk_held EXCEPT ![t] = tk_last']
    /\ UNCHANGED notToken

TokenInit ==
    /\ token_counter = <<0, 1>>
    /\ tk_calls = <<0, 0>>
    /\ tk_first = NoToken
    /\ tk_last = NoToken
    /\ tk_prev_max = NoToken
    /\ tk_max = NoToken
    /\ tk_held = [t \in TokenTasks |-> NoToken]
    /\ tk_steps = 0

TokenNext == \E t \in TokenTasks, n \in Runs : NextToken(t, n)

(***************************************************************************)
(* The codecs: a message is written with write_message (u32 code) or       *)
(* write_message_u8 (peer init) and the bytes are read back with the       *)
(* reader of the same protocol.  Strings are byte sequences; Option is a   *)
(* sequence of length 0 (None) or 1 (Some).                                *)
(***************************************************************************)
RoomListCode == 64
TransferRequestCode == 40
TransferResponseCode == 41
PierceFirewallCode == 0
PeerInitCode == 1

\* "INVALIDUSERNAME", "INVALIDPASS", "Queued", "P", "F" in ASCII
INVALIDUSERNAME == <<73, 78, 86, 65, 76, 73, 68, 85, 83, 69, 82, 78, 65, 77, 69>>
INVALIDPASS == <<73, 78, 86, 65, 76, 73, 68, 80, 65, 83, 83>>
QueuedStr == <<81, 117, 101, 117, 101, 100>>

Names == {<<>>, <<97>>}

write_string(s) == put_u32_le(Len(s)) \o s

write_bool(b) == IF b THEN <<1>> ELSE <<0>>

\* Option<T>: written only when Some
write_option_u64(o) == IF o = <<>> THEN <<>> ELSE put_u64_le(o[1])

RECURSIVE le_value(_)
le_value(b) == IF b = <<>> THEN 0 ELSE b[1] + 256 * le_value(Tail(b))

Underflow == [ok |-> FALSE]

read_u32(buf) ==
    IF Len(buf) < 4 THEN Underflow
    ELSE [ok |-> TRUE, value |-> le_value(SubSeq(buf, 1, 4)),
          rest |-> SubSeq(buf, 5, Len(buf))]

read_u64(buf) ==
    IF Len(buf) < 8 THEN Underflow
    ELSE [ok |-> TRUE, value |-> le_value(SubSeq(buf, 1, 8)),
          rest |-> SubSeq(buf, 9, Len(buf))]

read_bool(buf) ==
    IF Len(buf) < 1 THEN Underflow
    ELSE [ok |-> TRUE, value |-> buf[1] # 0, rest |-> Tail(buf)]

\* the loop of read_list with String::read_from
RECURSIVE read_strings(_, _)
read_strings(buf, count) ==
    IF count = 0 THEN [ok |-> TRUE, value |-> <<>>, rest |-> buf]
    ELSE LET s == read_string(buf)
         IN  IF ~s.ok THEN Underflow
             ELSE LET more == read_strings(s.rest, count - 1)
                  IN  IF ~more.ok THEN Underflow
                      ELSE [ok |-> TRUE, value |-> <<s.value>> \o more.value,
                            rest |-> more.rest]

\* the loop of read_list with u32::read_from
RECURSIVE read_u32s(_, _)
read_u32s(buf, count) ==
    IF count = 0 THEN [ok |-> TRUE, value |-> <<>>, rest |-> buf]
    ELSE LET n == read_u32(buf)
         IN  IF ~n.ok THEN Underflow
             ELSE LET more == read_u32s(n.rest, count - 1)
                  IN  IF ~more.ok THEN Underflow
                      ELSE [ok |-> TRUE, value |-> <<n.value>> \o more.value,
                            rest |-> more.rest]

read_list_of_strings(buf) ==
    LET count == read_u32(buf)
    IN  IF ~count.ok THEN Underflow ELSE read_strings(count.rest, count.value)

read_list_of_u32(buf) ==
    LET count == read_u32(buf)
    IN  IF ~count.ok THEN Underflow ELSE read_u32s(count.rest, count.value)

\* write_list(buf, rooms, |b, (name, count)| { name.write_to(b); count.write_to(b) })
RECURSIVE write_rooms(_)
write_rooms(rooms) ==
    IF rooms = <<>> THEN <<>>
    ELSE write_string(rooms[1][1]) \o put_u32_le(rooms[1][2]) \o write_rooms(Tail(rooms))

write_room_list(rooms) == put_u32_le(Len(rooms)) \o write_rooms(rooms)

RECURSIVE write_names(_)
write_names(names) ==
    IF names = <<>> THEN <<>> ELSE write_string(names[1]) \o write_names(Tail(names))

\* names.into_iter().zip(counts).collect()
zip(names, counts) ==
    [i \in 1..min(Len(names), Len(counts)) |-> <<names[i], counts[i]>>]

\* names and counts of one room list, as the reader takes them
read_rooms(buf) ==
    LET room_names == read_list_of_strings(buf)
    IN  IF ~room_names.ok THEN Underflow
        ELSE LET room_counts == read_list_of_u32(room_names.rest)
             IN  IF ~room_counts.ok THEN Underflow
                 ELSE [ok |-> TRUE, value |-> zip(room_names.value, room_counts.value),
                       rest |-> room_counts.rest]

\* LoginRejectionReason and TransferRejectionReason: a kind, and the text of
\* Other(text)
Reason(kind, text) == [kind |-> kind, text |-> text]

login_reason_str(reason) ==
    CASE reason.kind = "InvalidUsername" -> INVALIDUSERNAME
      [] reason.kind = "InvalidPassword" -> INVALIDPASS
      [] reason.kind = "Other" -> reason.text

login_reason_from_string(s) ==
    IF s = INVALIDUSERNAME THEN Reason("InvalidUsername", <<>>)
    ELSE IF s = INVALIDPASS THEN Reason("InvalidPassword", <<>>)
    ELSE Reason("Other", s)

transfer_reason_as_str(reason) ==
    CASE reason.kind = "Queued" -> QueuedStr
      [] reason.kind = "Other" -> reason.text

transfer_reason_from_string(s) ==
    IF s = QueuedStr THEN Reason("Queued", <<>>) ELSE Reason("Other", s)

connection_type_as_str(connection_type) ==
    CASE connection_type = "Peer" -> <<80>>
      [] connection_type = "File" -> <<70>>

\* MessageWrite::code
code(m) ==
    CASE m.type = "LoginFailure" -> LoginCode
      [] m.type = "RoomList" -> RoomListCode
      [] m.type = "TransferRequest" -> TransferRequestCode
      [] m.type = "TransferResponse" -> TransferResponseCode
      [] m.type = "PierceFirewall" -> PierceFirewallCode
      [] m.type = "PeerInit" -> PeerInitCode

\* MessageWrite::write_payload
write_payload(m) ==
    CASE m.type = "LoginFailure" ->
            write_bool(FALSE) \o write_string(login_reason_str(m.reason))
            \o (IF m.detail = <<>> THEN <<>> ELSE write_string(m.detail[1]))
      [] m.type = "RoomList" ->
            write_room_list(m.rooms) \o write_room_list(m.owned_private_rooms)
            \o write_room_list(m.private_rooms)
            \o put_u32_le(Len(m.operated_private_rooms))
            \o write_names(m.operated_private_rooms)
      [] m.type = "TransferRequest" ->
            put_u32_le(IF m.direction = "Upload" THEN 1 ELSE 0) \o put_u32_le(m.token)
            \o write_string(m.filename) \o write_option_u64(m.file_size)
      [] m.type = "TransferResponse" ->
            put_u32_le(m.token) \o write_bool(m.allowed)
            \o (IF m.allowed THEN write_option_u64(m.file_size)
                ELSE IF m.reason = <<>> THEN <<>>
                ELSE write_string(transfer_reason_as_str(m.reason[1])))
      [] m.type = "PierceFirewall" -> put_u32_le(m.token)
      [] m.type = "PeerInit" ->
            write_string(m.username)
            \o write_string(connection_type_as_str(m.connection_type))
            \o put_u32_le(m.token)

\* a writer whose length field leaves out the code
write_message_u8_payload_len(c, payload) == put_u32_le(Len(payload)) \o <<c>> \o payload

\* MessageWrite::write_message_u8: length prefix, u8 code, payload
write_message_u8(c, payload) == put_u32_le(1 + Len(payload)) \o <<c>> \o payload

IsPeerInit(m) == m.type \in {"PierceFirewall", "PeerInit"}

\* write_message for the server and peer protocols, write_peer_init_message
\* for peer init
encode(m) ==
    IF IsPeerInit(m) THEN write_message_u8(code(m), write_payload(m))
    ELSE write_message(code(m), write_payload(m))

DecodeError == [type |-> "Error"]

\* ServerResponse::read_with_code, ServerCode::Login, success = false
read_login_failure(buf) ==
    LET reason_str == read_string(buf)
    IN  IF ~reason_str.ok THEN DecodeError
        ELSE LET reason == login_reason_from_string(reason_str.value)
             IN  IF reason.kind = "InvalidUsername" /\ reason_str.rest # <<>>
                 THEN LET detail == read_string(reason_str.rest)
                      IN  IF ~detail.ok THEN DecodeError
                          ELSE [type |-> "LoginFailure", reason |-> reason,
                                detail |-> <<detail.value>>]
                 ELSE [type |-> "LoginFailure", reason |-> reason, detail |-> <<>>]

\* ServerResponse::read_with_code, ServerCode::RoomList
read_room_list(buf) ==
    LET rooms == read_rooms(buf)
    IN  IF ~rooms.ok THEN DecodeError
        ELSE LET owned == read_rooms(rooms.rest)
             IN  IF ~owned.ok THEN DecodeError
                 ELSE LET private == read_rooms(owned.rest)
                      IN  IF ~private.ok THEN DecodeError
                          ELSE LET operated == read_list_of_strings(private.rest)
                               IN  IF ~operated.ok THEN DecodeError
                                   ELSE [type |-> "RoomList", rooms |-> rooms.value,
                                         owned_private_rooms |-> owned.value,
                                         private_rooms |-> private.value,
                                         operated_private_rooms |-> operated.value]

\* PeerMessage::read_with_code, PeerCode::TransferRequest
read_transfer_request(buf) ==
    LET dir == read_u32(buf)
    IN  IF ~dir.ok \/ dir.value > 1 THEN DecodeError
        ELSE LET tok == read_u32(dir.rest)
                 name == IF tok.ok THEN read_string(tok.rest) ELSE Underflow
             IN  IF ~name.ok THEN DecodeError
                 ELSE IF dir.value = 1 /\ name.rest # <<>>
                 THEN LET size == read_u64(name.rest)
                      IN  IF ~size.ok THEN DecodeError
                          ELSE [type |-> "TransferRequest", direction |-> "Upload",
                                token |-> tok.value, filename |-> name.value,
                                file_size |-> <<size.value>>]
                 ELSE [type |-> "TransferRequest",
                       direction |-> IF dir.value = 1 THEN "Upload" ELSE "Download",
                       token |-> tok.value, filename |-> name.value,
                       file_size |-> <<>>]

\* PeerMessage::read_with_code, PeerCode::TransferResponse
read_transfer_response(buf) ==
    LET tok == read_u32(buf)
        allowed == IF tok.ok THEN read_bool(tok.rest) ELSE Underflow
    IN  IF ~allowed.ok THEN DecodeError
        ELSE IF allowed.value
        THEN IF allowed.rest # <<>>
             THEN LET size == read_u64(allowed.rest)
                  IN  IF ~size.ok THEN DecodeError
                      ELSE [type |-> "TransferResponse", token |-> tok.value,
                            allowed |-> TRUE, file_size |-> <<size.value>>,
                            reason |-> <<>>]
             ELSE [type |-> "TransferResponse", token |-> tok.value, allowed |-> TRUE,
                   file_size |-> <<>>, reason |-> <<>>]
        ELSE IF allowed.rest # <<>>
        THEN LET reason_str == read_string(allowed.rest)
             IN  IF ~reason_str.ok THEN DecodeError
                 ELSE [type |-> "TransferResponse", token |-> tok.value,
                       allowed |-> FALSE, file_size |-> <<>>,
                       reason |-> <<transfer_reason_from_string(reason_str.value)>>]
        ELSE [type |-> "TransferResponse", token |-> tok.value, allowed |-> FALSE,
              file_size |-> <<>>, reason |-> <<>>]

\* PeerInitMessage::read_with_code
read_peer_init(c, buf) ==
    IF c = PierceFirewallCode
    THEN LET tok == read_u32(buf)
         IN  IF ~tok.ok THEN DecodeError
             ELSE [type |-> "PierceFirewall", token |-> tok.value]
    ELSE IF c = PeerInitCode
    THEN LET username == read_string(buf)
             conn_type_str == IF username.ok THEN read_string(username.rest) ELSE Underflow
             tok == IF conn_type_str.ok THEN read_u32(conn_type_str.rest) ELSE Underflow
         IN  IF ~tok.ok \/ conn_type_str.value \notin {<<80>>, <<70>>} THEN DecodeError
             ELSE [type |-> "PeerInit", username |-> username.value,
                   connection_type |-> IF conn_type_str.value = <<80>> THEN "Peer"
                                       ELSE "File",
                   token |-> tok.value]
    ELSE DecodeError

\* read_server_message, read_peer_message, read_peer_init_message: the
\* length is read and dropped, then the code, then the payload by its code
decode(proto, bytes) ==
    IF proto = "init"
    THEN IF Len(bytes) < 5 THEN DecodeError
         ELSE read_peer_init(bytes[5], SubSeq(bytes, 6, Len(bytes)))
    ELSE IF Len(bytes) < 8 THEN DecodeError
    ELSE LET c == le_value(SubSeq(bytes, 5, 8))
             payload == SubSeq(bytes, 9, Len(bytes))
         IN  IF proto = "server" /\ c = LoginCode
             THEN LET success == read_bool(payload)
                  IN  IF ~success.ok \/ success.value THEN DecodeError
                      ELSE read_login_failure(success.rest)
             ELSE IF proto = "server" /\ c = RoomListCode THEN read_room_list(payload)
             ELSE IF proto = "peer" /\ c = TransferRequestCode
             THEN read_transfer_request(payload)
             ELSE IF proto = "peer" /\ c = TransferResponseCode
             THEN read_transfer_response(payload)
             ELSE DecodeError

proto_of(m) ==
    IF IsPeerInit(m) THEN "init"
    ELSE IF m.type \in {"LoginFailure", "RoomList"} THEN "server"
    ELSE "peer"

\* the message instances considered
RoomLists == {<<>>} \cup {<<<<n, c>>>> : n \in Names, c \in {0, 2}}

Sizes == {<<>>, <<5>>, <<70000>>}

Tokens == {1, 258}

Messages ==
    [type : {"LoginFailure"},
     reason : {Reason("InvalidUsername", <<>>), Reason("InvalidPassword", <<>>),
               Reason("Other", <<97>>)},
     detail : {<<>>, <<<<97>>>>}]
    \cup [type : {"RoomList"}, rooms : RoomLists, owned_private_rooms : {<<>>},
          private_rooms : RoomLists, operated_private_rooms : {<<>>, <<<<97>>>>}]
    \cup [type : {"TransferRequest"}, direction : {"Download", "Upload"},
          token : Tokens, filename : Names, file_size : Sizes]
    \cup [type : {"TransferResponse"}, token : Tokens, allowed : {TRUE},
          file_size : Sizes, reason : {<<>>}]
    \cup [type : {"TransferResponse"}, token : Tokens, allowed : {FALSE},
          file_size : {<<>>},
          reason : {<<>>, <<Reason("Queued", <<>>)>>, <<Reason("Other", <<97>>)>>}]
    \cup [type : {"PierceFirewall"}, token : Tokens]
    \cup [type : {"PeerInit"}, username : Names, connection_type : {"Peer", "File"},
          token : Tokens]

NoMessage == [type |-> "None"]

CdChoose(m) ==
    /\ cd_pc \in {"idle", "decoded"}
    /\ cd_count < MaxMessages
    /\ cd_count' = cd_count + 1
    /\ cd_msg' = m
    /\ cd_pc' = "chosen"
    /\ cd_bytes' = <<>>
    /\ cd_decoded' = NoMessage
    /\ UNCHANGED notCodec

CdEncode ==
    /\ cd_pc = "chosen"
    /\ cd_bytes' = encode(cd_msg)
    /\ cd_pc' = "encoded"
    /\ UNCHANGED <<cd_msg, cd_decoded, cd_count>>
    /\ UNCHANGED notCodec

CdDecode ==
    /\ cd_pc = "encoded"
    /\ cd_decoded' = decode(proto_of(cd_msg), cd_bytes)
    /\ cd_pc' = "decoded"
    /\ UNCHANGED <<cd_msg, cd_bytes, cd_count>>
    /\ UNCHANGED notCodec

CodecInit ==
    /\ cd_msg = NoMessage
    /\ cd_pc = "idle"
    /\ cd_bytes = <<>>
    /\ cd_decoded = NoMessage
    /\ cd_count = 0

CodecNext ==
    \/ \E m \in Messages : CdChoose(m)
    \/ CdEncode
    \/ CdDecode

(***************************************************************************)
(* A peer connects to the listener: handle_incoming_peer reads until       *)
(* peer_init_message_size finds a complete frame, then takes the peer-init *)
(* message from read_buf with read_peer_init_message.  The peer's frame    *)
(* may declare more bytes than the fields of its message need.             *)
(***************************************************************************)
InitMessages ==
    {[type |-> "PierceFirewall", token |-> 42],
     [type |-> "PeerInit", username |-> <<97>>, connection_type |-> "Peer",
      token |-> 1]}

Trailing == {<<>>, <<222, 173, 190, 239>>}

\* the frame of m with pad further bytes inside its declared length
InitFrame(m, pad) ==
    write_message_u8(code(m), write_payload(m) \o [i \in 1..pad |-> 255])

\* peer_init_message_size that reports the declared length only
peer_init_message_size_declared(buf) ==
    IF Len(buf) < 4 THEN <<>>
    ELSE IF Len(buf) >= 4 + from_le_bytes(buf) THEN <<from_le_bytes(buf)>> ELSE <<>>

\* Option<usize> as a sequence of length at most one
peer_init_message_size(buf) ==
    IF Len(buf) < 4 THEN <<>>
    ELSE LET msg_len == from_le_bytes(buf)
             total == 4 + msg_len
         IN  IF Len(buf) >= total THEN <<total>> ELSE <<>>

\* read_peer_init_message on a buffer: the message (or Err) and what is left
\* in the buffer; the length is read and dropped, the fields are read one
\* after the other
read_peer_init_message(buf) ==
    LET len == read_u32(buf)
    IN  IF ~len.ok \/ len.rest = <<>> THEN [ok |-> FALSE]
        ELSE LET c == len.rest[1]
                 body == Tail(len.rest)
             IN  IF c = PierceFirewallCode
                 THEN LET tok == read_u32(body)
                      IN  IF ~tok.ok THEN [ok |-> FALSE]
                          ELSE [ok |-> TRUE,
                                value |-> [type |-> "PierceFirewall", token |-> tok.value],
                                rest |-> tok.rest]
                 ELSE IF c = PeerInitCode
                 THEN LET username == read_string(body)
                          conn_type_str == IF username.ok THEN read_string(username.rest)
                                           ELSE Underflow
                          tok == IF conn_type_str.ok THEN read_u32(conn_type_str.rest)
                                 ELSE Underflow
                      IN  IF ~tok.ok \/ conn_type_str.value \notin {<<80>>, <<70>>}
                          THEN [ok |-> FALSE]
                          ELSE [ok |-> TRUE,
                                value |-> [type |-> "PeerInit",
                                           username |-> username.value,
                                           connection_type |->
                                               IF conn_type_str.value = <<80>>
                                               THEN "Peer" ELSE "File",
                                           token |-> tok.value],
                                rest |-> tok.rest]
                 ELSE [ok |-> FALSE]

\* the peer connects and writes its init frame and what follows it, or
\* closes one byte short of the whole frame
InConnect(m, pad, trailing, whole) ==
    /\ in_pc = "idle"
    /\ in_msg' = m
    /\ in_frame' = InitFrame(m, pad)
    /\ in_wire' = IF whole THEN InitFrame(m, pad) \o trailing
                  ELSE SubSeq(InitFrame(m, pad), 1, Len(InitFrame(m, pad)) - 1)
    /\ in_pc' = "wait"
    /\ UNCHANGED <<in_taken, in_read_buf, in_init>>
    /\ UNCHANGED notInbound

\* the body of the while loop: no complete init frame yet, n > 0 bytes arrive
InRead(n) ==
    /\ in_pc = "wait"
    /\ peer_init_message_size(in_read_buf) = <<>>
    /\ n <= Len(in_wire)
    /\ in_read_buf' = in_read_buf \o SubSeq(in_wire, 1, n)
    /\ in_taken' = in_taken \o SubSeq(in_wire, 1, n)
    /\ in_wire' = SubSeq(in_wire, n + 1, Len(in_wire))
    /\ UNCHANGED <<in_msg, in_frame, in_pc, in_init>>
    /\ UNCHANGED notInbound

\* the read returns 0 before the init frame is complete
InClosed ==
    /\ in_pc = "wait"
    /\ peer_init_message_size(in_read_buf) = <<>>
    /\ in_wire = <<>>
    /\ in_pc' = "failed"
    /\ UNCHANGED <<in_msg, in_frame, in_wire, in_taken, in_read_buf, in_init>>
    /\ UNCHANGED notInbound

\* the loop is over: read_peer_init_message(&mut read_buf)?
InInit ==
    /\ in_pc = "wait"
    /\ peer_init_message_size(in_read_buf) # <<>>
    /\ LET got == read_peer_init_message(in_read_buf)
       IN  IF got.ok
           THEN /\ in_init' = got.value
                /\ in_read_buf' = got.rest
                /\ in_pc' = "init_done"
           ELSE /\ in_pc' = "failed"
                /\ UNCHANGED <<in_init, in_read_buf>>
    /\ UNCHANGED <<in_msg, in_frame, in_wire, in_taken>>
    /\ UNCHANGED notInbound

InboundInit ==
    /\ in_msg = NoMessage
    /\ in_frame = <<>>
    /\ in_wire = <<>>
    /\ in_taken = <<>>
    /\ in_read_buf = <<>>
    /\ in_pc = "idle"
    /\ in_init = NoMessage

InboundNext ==
    \/ \E m \in InitMessages, pad \in 0..MaxPad, trailing \in Trailing,
             whole \in BOOLEAN :
          InConnect(m, pad, trailing, whole)
    \/ \E n \in 1..Len(in_wire) : InRead(n)
    \/ InClosed
    \/ InInit

(***************************************************************************)
(* The primitive reads of protocol.rs on a buffer of any length: each      *)
(* returns Ok or Err and moves the cursor of the buffer.  The value of a   *)
(* fixed-size read is kept as the bytes it took.                           *)
(***************************************************************************)
PrimBytes == {0, 2}

FixedKinds == {"u8", "u16", "u32", "i32", "u64", "bool", "Ipv4Addr"}

PrefixedKinds == {"String", "bytes"}

size_of(kind) ==
    CASE kind \in {"u8", "bool"} -> 1
      [] kind = "u16" -> 2
      [] kind \in {"u32", "i32", "Ipv4Addr"} -> 4
      [] kind = "u64" -> 8

BufferUnderflow(needed, available) ==
    [ok |-> FALSE, error |-> "BufferUnderflow", needed |-> needed,
     available |-> available]

\* read_from of a fixed-size type: the result and the buffer after it
fixed_read_from(kind, buf) ==
    IF Len(buf) < size_of(kind)
    THEN [result |-> BufferUnderflow(size_of(kind), Len(buf)), rest |-> buf]
    ELSE [result |-> [ok |-> TRUE, value |-> SubSeq(buf, 1, size_of(kind))],
          rest |-> SubSeq(buf, size_of(kind) + 1, Len(buf))]

\* String::read_from and read_bytes: the length is read with u32::read_from,
\* then the remaining bytes are compared with it
prefixed_read_from(buf) ==
    LET len == fixed_read_from("u32", buf)
    IN  IF ~len.result.ok THEN len
        ELSE IF Len(len.rest) < le_value(len.result.value)
        THEN [result |-> BufferUnderflow(le_value(len.result.value), Len(len.rest)),
              rest |-> len.rest]
        ELSE [result |-> [ok |-> TRUE,
                          value |-> SubSeq(len.rest, 1, le_value(len.result.value))],
              rest |-> SubSeq(len.rest, le_value(len.result.value) + 1, Len(len.rest))]

read_from(kind, buf) ==
    IF kind \in FixedKinds THEN fixed_read_from(kind, buf) ELSE prefixed_read_from(buf)

NoResult == [ok |-> FALSE, error |-> "none", needed |-> 0, available |-> 0]

\* one more byte arrives in the buffer
PrPut(b) ==
    /\ pr_kind = ""
    /\ Len(pr_buf) < MaxPrimBytes
    /\ pr_buf' = Append(pr_buf, b)
    /\ UNCHANGED <<pr_kind, pr_result, pr_rest>>
    /\ UNCHANGED notPrim

\* T::read_from(&mut buf)
PrRead(kind) ==
    /\ pr_kind = ""
    /\ pr_kind' = kind
    /\ pr_result' = read_from(kind, pr_buf).result
    /\ pr_rest' = read_from(kind, pr_buf).rest
    /\ UNCHANGED pr_buf
    /\ UNCHANGED notPrim

PrimInit ==
    /\ pr_buf = <<>>
    /\ pr_kind = ""
    /\ pr_result = NoResult
    /\ pr_rest = <<>>

PrimNext ==
    \/ \E b \in PrimBytes : PrPut(b)
    \/ \E kind \in FixedKinds \cup PrefixedKinds : PrRead(kind)

(***************************************************************************)
(* The selectors on a list of accumulated results: pick_best_file of the   *)
(* TUI and pick_best_files of the batch downloader.                        *)
(***************************************************************************)
MAX_CANDIDATES == 10

PickUsers == {"bob", "carol"}

PickFiles == {flac, mp3hi, mp3lo, txt, flac320, ogg}

\* candidates.into_iter().filter(|c| seen_users.insert(c.username.clone()))
RECURSIVE unique_users(_, _)
unique_users(candidates, seen_users) ==
    IF candidates = <<>> THEN <<>>
    ELSE IF candidates[1].username \in seen_users
    THEN unique_users(Tail(candidates), seen_users)
    ELSE <<candidates[1]>>
         \o unique_users(Tail(candidates), seen_users \cup {candidates[1].username})

take(s, n) == SubSeq(s, 1, min(Len(s), n))

\* pick_best_files without the filter on seen_users
pick_best_files_every_result(results, exclude_users) ==
    LET is_candidate(r) ==
            /\ \E ext \in audio_exts : ends_with(to_lowercase(r.file.filename), ext)
            /\ r.username \notin exclude_users
    IN  take(sort_by(SelectSeq(results, is_candidate)), MAX_CANDIDATES)

pick_best_files(results, exclude_users) ==
    LET is_candidate(r) ==
            /\ \E ext \in audio_exts : ends_with(to_lowercase(r.file.filename), ext)
            /\ r.username \notin exclude_users
        candidates == sort_by(SelectSeq(results, is_candidate))
    IN  take(unique_users(candidates, {}), MAX_CANDIDATES)

\* one more result is accumulated
PkPush(user, file) ==
    /\ pk_pc = "collect"
    /\ Len(pk_results) < MaxPickResults
    /\ pk_results' = Append(pk_results, AccumulatedResult(user, file))
    /\ UNCHANGED <<pk_exclude, pk_pc, pk_best, pk_candidates>>
    /\ UNCHANGED notPick

\* a user the track has already been tried with
PkExclude(user) ==
    /\ pk_pc = "collect"
    /\ pk_results = <<>>
    /\ pk_exclude = {}
    /\ pk_exclude' = {user}
    /\ UNCHANGED <<pk_results, pk_pc, pk_best, pk_candidates>>
    /\ UNCHANGED notPick

\* the selectors are applied to the results
PkPick ==
    /\ pk_pc = "collect"
    /\ pk_pc' = "picked"
    /\ pk_best' = pick_best_file(pk_results)
    /\ pk_candidates' = pick_best_files(pk_results, pk_exclude)
    /\ UNCHANGED <<pk_results, pk_exclude>>
    /\ UNCHANGED notPick

PickInit ==
    /\ pk_results = <<>>
    /\ pk_exclude = {}
    /\ pk_pc = "collect"
    /\ pk_best = <<>>
    /\ pk_candidates = <<>>

PickNext ==
    \/ \E user \in PickUsers, file \in PickFiles : PkPush(user, file)
    \/ \E user \in PickUsers : PkExclude(user)
    \/ PkPick

(***************************************************************************)
(* Queued searches and their kinds (client.rs): QueuedSearch,              *)
(* execute_search, try_execute_or_queue_search and the drain task of       *)
(* run_client, with the three maps that route a FileSearchResponse.        *)
(***************************************************************************)
\* enum QueuedSearch (the query text plays no part in the routing)
Regular == [kind |-> "Regular", track_index |-> 0, download_id |-> 0]

SpotifyTrack(track_index) ==
    [kind |-> "SpotifyTrack", track_index |-> track_index, download_id |-> 0]

RetryDownload(download_id) ==
    [kind |-> "RetryDownload", track_index |-> 0, download_id |-> download_id]

QueuedSearches ==
    {Regular} \cup {SpotifyTrack(i) : i \in 0..1} \cup {RetryDownload(d) : d \in 1..2}

\* an execute_search that registers every search as an interactive one
execute_search_as_regular(search, st, t) ==
    [st EXCEPT !.token = st.token + 1,
               !.pending_searches = st.pending_searches \cup {st.token},
               !.search_timestamps = record_search(st.search_timestamps, t)]

\* execute_search: next_token, then under the lock pending_searches.insert,
\* the insert into the map of the search's kind, and record_search
execute_search(search, st, t) ==
    LET token == st.token
    IN  [token |-> token + 1,
         pending_searches |-> st.pending_searches \cup {token},
         spotify_track_searches |->
             IF search.kind = "SpotifyTrack"
             THEN Insert(st.spotify_track_searches, token,
                         [track_index |-> search.track_index, results |-> <<>>])
             ELSE st.spotify_track_searches,
         retry_searches |->
             IF search.kind = "RetryDownload"
             THEN Insert(st.retry_searches, token,
                         [download_id |-> search.download_id, results |-> <<>>])
             ELSE st.retry_searches,
         search_timestamps |-> record_search(st.search_timestamps, t)]

\* handle_peer_connection on a FileSearchResponse: where its results go
route(token, st) ==
    IF token \notin st.pending_searches THEN "dropped"
    ELSE IF token \in DOMAIN st.spotify_track_searches
         THEN "accumulate_search_results"
    ELSE IF token \in DOMAIN st.retry_searches
         THEN "accumulate_retry_results"
    ELSE "SearchResult"

Pruned(st, t) ==
    [st EXCEPT !.search_timestamps = prune_old_searches(st.search_timestamps, t)]

EmptyState ==
    [token |-> 1, pending_searches |-> {}, spotify_track_searches |-> <<>>,
     retry_searches |-> <<>>, search_timestamps |-> <<>>]

RECURSIVE Searched(_, _)
Searched(n, st) ==
    IF n = 0 THEN st ELSE execute_search(Regular, Searched(n - 1, st), 0)

\* n interactive searches were executed at instant 0
QsEarlier(n) ==
    /\ qs_pc = "start"
    /\ qs_pc' = "run"
    /\ qs_st' = Searched(n, qs_st)
    /\ UNCHANGED <<qs_now, qs_queued, qs_submitted, qs_sent>>
    /\ UNCHANGED notQs

\* try_execute_or_queue_search: can_search under the lock, queue_search when
\* it is false, execute_search when it is true
QsTryExecuteOrQueue(search) ==
    /\ qs_pc = "run"
    /\ Len(qs_submitted) < MaxQueuedSearches
    /\ LET st == Pruned(qs_st, qs_now)
           can == can_search(st.search_timestamps)
       IN  /\ qs_submitted' = Append(qs_submitted, [search |-> search, queued |-> ~can])
           /\ IF can
              THEN /\ qs_st' = execute_search(search, st, qs_now)
                   /\ qs_sent' = Append(qs_sent, [search |-> search, token |-> st.token,
                                                  drained |-> FALSE])
                   /\ UNCHANGED qs_queued
              ELSE /\ qs_st' = st
                   /\ qs_queued' = Append(qs_queued, search)
                   /\ UNCHANGED qs_sent
    /\ UNCHANGED <<qs_pc, qs_now>>
    /\ UNCHANGED notQs

\* one round of the drain task's loop: can_search and pop_queued under the
\* lock, then execute_search on what was popped
QsDrain ==
    /\ qs_pc = "run"
    /\ LET st == Pruned(qs_st, qs_now)
       IN  /\ can_search(st.search_timestamps)
           /\ qs_queued # <<>>
           /\ qs_queued' = Tail(qs_queued)
           /\ qs_st' = execute_search(Head(qs_queued), st, qs_now)
           /\ qs_sent' = Append(qs_sent, [search |-> Head(qs_queued), token |-> st.token,
                                          drained |-> TRUE])
    /\ UNCHANGED <<qs_pc, qs_now, qs_submitted>>
    /\ UNCHANGED notQs

\* the drain task's sleep ends: the window and its 100 ms have passed
QsSleep ==
    /\ qs_pc = "run"
    /\ qs_now < MaxQueuedWindows * (SEARCH_RATE_LIMIT_WINDOW + DRAIN_SLACK)
    /\ qs_now' = qs_now + SEARCH_RATE_LIMIT_WINDOW + DRAIN_SLACK
    /\ UNCHANGED <<qs_pc, qs_st, qs_queued, qs_submitted, qs_sent>>
    /\ UNCHANGED notQs

QsInit ==
    /\ qs_pc = "start"
    /\ qs_now = 0
    /\ qs_st = EmptyState
    /\ qs_queued = <<>>
    /\ qs_submitted = <<>>
    /\ qs_sent = <<>>

QsNext ==
    \/ \E n \in {SEARCH_RATE_LIMIT_MAX - 1, SEARCH_RATE_LIMIT_MAX} : QsEarlier(n)
    \/ \E search \in QueuedSearches : QsTryExecuteOrQueue(search)
    \/ QsDrain
    \/ QsSleep

(***************************************************************************)
(* A connection the server asked for (client.rs): the ConnectToPeer arm of *)
(* handle_server_response spawns handle_peer_connection, which dials the   *)
(* address, writes PierceFirewall and reads peer messages until the peer   *)
(* closes.                                                                 *)
(***************************************************************************)
ConnectionTypes == {"Peer", "File", "Distributed"}

\* (ip, port) pairs; port is a u32 on the wire, so it may exceed 65535
Addresses == {<<"198.51.100.9", 34567>>, <<"203.0.113.7", 70000>>}

NoPush == [connection_type |-> "", address |-> <<>>, token |-> 0]

\* what the peer may write: well-formed peer messages, a frame with an
\* unknown code, and a frame of declared length 0
PiercedFrames ==
    {PeerFrame(kind, 1) :
        kind \in {"SharedFileListRequest", "SharedFileListResponse", "Unknown"}}
    \cup {LittleEndian(0, 4)}

\* a loop that cuts at most one frame for each read
pierced_frames_one_each_read(buf, log) ==
    IF Len(buf) < 4 \/ Len(buf) < 4 + from_le_bytes(buf)
    THEN [read_buf |-> buf, log |-> log]
    ELSE LET msg_len == from_le_bytes(buf)
         IN  [read_buf |-> SubSeq(buf, 5 + msg_len, Len(buf)),
              log |-> Append(log, read_peer_message(SubSeq(buf, 1, 4 + msg_len)))]

\* while read_buf.len() >= 4: break on an incomplete frame, otherwise
\* split_to(4 + msg_len) and read_peer_message; Ok(_) and Err(_) go on
RECURSIVE pierced_frames(_, _)
pierced_frames(buf, log) ==
    IF Len(buf) < 4 \/ Len(buf) < 4 + from_le_bytes(buf)
    THEN [read_buf |-> buf, log |-> log]
    ELSE LET msg_len == from_le_bytes(buf)
         IN  pierced_frames(SubSeq(buf, 5 + msg_len, Len(buf)),
                 Append(log, read_peer_message(SubSeq(buf, 1, 4 + msg_len))))

\* handle_server_response, ConnectToPeer: the task is spawned for
\* ConnectionType::Peer only
PfConnectToPeer(connection_type, address, token) ==
    /\ pf_pc = "idle"
    /\ pf_push = NoPush
    /\ pf_push' = [connection_type |-> connection_type, address |-> address,
                   token |-> token]
    /\ pf_pc' = IF connection_type = "Peer" THEN "spawned" ELSE "idle"
    /\ UNCHANGED <<pf_dialed, pf_out, pf_frames, pf_wire, pf_read_buf, pf_decoded>>
    /\ UNCHANGED notPf

\* TcpStream::connect(format!("{}:{}", ip, port)) and the write_all of
\* PierceFirewall; either may fail, and a port above 65535 always does
PfConnect(connected) ==
    /\ pf_pc = "spawned"
    /\ connected => pf_push.address[2] < 2 ^ 16
    /\ pf_dialed' = pf_push.address
    /\ IF connected
       THEN /\ pf_pc' = "open"
            /\ pf_out' = encode([type |-> "PierceFirewall", token |-> pf_push.token])
       ELSE /\ pf_pc' = "ended"
            /\ UNCHANGED pf_out
    /\ UNCHANGED <<pf_push, pf_frames, pf_wire, pf_read_buf, pf_decoded>>
    /\ UNCHANGED notPf

\* the peer writes a frame
PfPeerSend(frame) ==
    /\ pf_pc = "open"
    /\ Len(pf_frames) < MaxPiercedFrames
    /\ pf_frames' = Append(pf_frames, frame)
    /\ pf_wire' = pf_wire \o frame
    /\ UNCHANGED <<pf_pc, pf_push, pf_dialed, pf_out, pf_read_buf, pf_decoded>>
    /\ UNCHANGED notPf

\* one pass of the loop: a read of n > 0 bytes, then the while loop
PfRead(n) ==
    /\ pf_pc = "open"
    /\ n <= Len(pf_wire)
    /\ pf_wire' = SubSeq(pf_wire, n + 1, Len(pf_wire))
    /\ LET after == pierced_frames(pf_read_buf \o SubSeq(pf_wire, 1, n), pf_decoded)
       IN  /\ pf_read_buf' = after.read_buf
           /\ pf_decoded' = after.log
    /\ UNCHANGED <<pf_pc, pf_push, pf_dialed, pf_out, pf_frames>>
    /\ UNCHANGED notPf

\* the read returns 0 (break) or an error (?): the task ends
PfClosed ==
    /\ pf_pc = "open"
    /\ pf_pc' = "ended"
    /\ UNCHANGED <<pf_push, pf_dialed, pf_out, pf_frames, pf_wire, pf_read_buf,
                   pf_decoded>>
    /\ UNCHANGED notPf

PfInit ==
    /\ pf_pc = "idle"
    /\ pf_push = NoPush
    /\ pf_dialed = <<>>
    /\ pf_out = <<>>
    /\ pf_frames = <<>>
    /\ pf_wire = <<>>
    /\ pf_read_buf = <<>>
    /\ pf_decoded = <<>>

PfNext ==
    \/ \E connection_type \in ConnectionTypes, address \in Addresses, token \in Tokens :
          PfConnectToPeer(connection_type, address, token)
    \/ \E connected \in BOOLEAN : PfConnect(connected)
    \/ \E frame \in PiercedFrames : PfPeerSend(frame)
    \/ \E n \in 1..MaxPiercedRead : PfRead(n)
    \/ PfClosed

(***************************************************************************)
(* The relay server (bin/server): ServerState and its methods (state.rs),  *)
(* handle_login, handle_join_room and handle_leave_room (handlers.rs) and  *)
(* the connection task that calls them (connection.rs).  Every handler     *)
(* takes the write lock of the state for all it does to it.                *)
(***************************************************************************)
RelayConns == 1..MaxRelayConns

LongName == "a-name-of-thirty-one-characters"

RelayNames == {"alice", "bob", "carol"}

\* the Login requests considered: alice with a password, another password
\* and none, the other names with one password, the two invalid names, and
\* a client that is too old
LoginRequest(username, password, version) ==
    [username |-> username, password |-> password, version |-> version]

LoginRequests ==
    {LoginRequest("alice", password, min_version + 60) :
        password \in {"", "pw", "other"}}
    \cup {LoginRequest(username, "pw", min_version + 60) :
             username \in {"bob", "carol", "", LongName}}
    \cup {LoginRequest("alice", "pw", min_version - 1)}

RoomNames == {"lobby"}

\* String::len of the names above
len(username) ==
    CASE username = "" -> 0
      [] username = "alice" -> 5
      [] username = "bob" -> 3
      [] username = "carol" -> 5
      [] username = LongName -> 31

\* format!("{:x}", md5::compute(&password))
md5(password) == <<"md5", password>>

\* UserSession::new: no room joined yet
UserSession(id, username, password_hash) ==
    [id |-> id, username |-> username, password_hash |-> password_hash,
     joined_rooms |-> {}]

\* ServerState::new
NewServerState ==
    [users |-> <<>>, connections |-> <<>>, registered |-> <<>>, rooms |-> <<>>]

\* ServerState::add_user
add_user(st, session) ==
    [st EXCEPT !.users = Insert(@, session.username, session),
               !.connections = Insert(@, session.id, session.username)]

\* ServerState::remove_user: the session, its connections entry and the
\* name in every room's user set
remove_user(st, username) ==
    IF username \in DOMAIN st.users
    THEN [st EXCEPT
            !.users = Remove(@, username),
            !.connections = Remove(@, st.users[username].id),
            !.rooms = [r \in DOMAIN st.rooms |->
                          [st.rooms[r] EXCEPT !.users = @ \ {username}]]]
    ELSE st

\* ServerState::is_online
is_online(st, username) == username \in DOMAIN st.users

\* ServerState::online_count
online_count(st) == Cardinality(DOMAIN st.users)

\* ServerState::register_or_verify
register_or_verify(st, username, password_hash) ==
    IF username \in DOMAIN st.registered
    THEN [ok |-> st.registered[username].password_hash = password_hash, state |-> st]
    ELSE [ok |-> TRUE,
          state |-> [st EXCEPT !.registered =
                        Insert(@, username, [password_hash |-> password_hash])]]

\* a capacity check that lets one user too many in
server_full_above(st) == online_count(st) > max_users

\* handle_login: state.online_count() >= config.max_users
server_full(st) == online_count(st) >= max_users

Rejected(st, reason) == [state |-> st, reply |-> reason, returned |-> <<>>]

\* handle_login; returned is the Option<String> given back to the
\* connection task
handle_login(st, connection_id, username, password, version) ==
    IF version < min_version THEN Rejected(st, "InvalidVersion")
    ELSE IF len(username) = 0 \/ len(username) > 30
    THEN Rejected(st, "InvalidUsername")
    ELSE IF password = "" THEN Rejected(st, "EmptyPassword")
    ELSE LET password_hash == md5(password)
             relogged == IF is_online(st, username) THEN remove_user(st, username)
                         ELSE st
         IN  IF server_full(relogged) THEN Rejected(relogged, "ServerFull")
             ELSE LET verified == register_or_verify(relogged, username, password_hash)
                  IN  IF verified.ok
                      THEN [state |-> add_user(verified.state,
                                         UserSession(connection_id, username,
                                                     password_hash)),
                            reply |-> "LoginSuccess",
                            returned |-> <<username>>]
                      ELSE Rejected(verified.state, "InvalidPassword")

\* handle_join_room: get_or_create_room, room.users.insert, and
\* joined_rooms.insert when get_user_mut finds the user
handle_join_room(st, username, room_name) ==
    LET users == IF room_name \in DOMAIN st.rooms THEN st.rooms[room_name].users
                 ELSE {}
    IN  [st EXCEPT
            !.rooms = Insert(@, room_name, [users |-> users \cup {username}]),
            !.users = IF username \in DOMAIN @
                      THEN [@ EXCEPT ![username].joined_rooms = @ \cup {room_name}]
                      ELSE @]

\* handle_leave_room
handle_leave_room(st, username, room_name) ==
    [st EXCEPT
        !.rooms = IF room_name \in DOMAIN @
                  THEN [@ EXCEPT ![room_name].users = @ \ {username}]
                  ELSE @,
        !.users = IF username \in DOMAIN @
                  THEN [@ EXCEPT ![username].joined_rooms = @ \ {room_name}]
                  ELSE @]

NoConnection == [pc |-> "none", username |-> <<>>]

NoRequest == [op |-> "none", reply |-> ""]

\* the listener accepts a connection: next_connection_id, the task starts
RsAccept(c) ==
    /\ rs_conn[c].pc = "none"
    /\ \A b \in 1..(c - 1) : rs_conn[b].pc # "none"
    /\ rs_conn' = [rs_conn EXCEPT ![c].pc = "open"]
    /\ rs_last' = NoRequest
    /\ UNCHANGED rs_state
    /\ UNCHANGED notRs

\* a Login frame is read on connection c: handle_login, and
\* Ok(Some(new_username)) replaces the task's username
RsLogin(c, username, password, version) ==
    /\ rs_conn[c].pc = "open"
    /\ LET done == handle_login(rs_state, c, username, password, version)
       IN  /\ rs_state' = done.state
           /\ rs_conn' = IF done.returned # <<>>
                         THEN [rs_conn EXCEPT ![c].username = done.returned]
                         ELSE rs_conn
           /\ rs_last' = [op |-> "Login", reply |-> done.reply]
    /\ UNCHANGED notRs

\* a JoinRoom frame is read on connection c
RsJoinRoom(c, room_name) ==
    /\ rs_conn[c].pc = "open"
    /\ rs_state' = IF rs_conn[c].username # <<>>
                   THEN handle_join_room(rs_state, rs_conn[c].username[1], room_name)
                   ELSE rs_state
    /\ rs_last' = NoRequest
    /\ UNCHANGED rs_conn
    /\ UNCHANGED notRs

\* a LeaveRoom frame is read on connection c
RsLeaveRoom(c, room_name) ==
    /\ rs_conn[c].pc = "open"
    /\ rs_state' = IF rs_conn[c].username # <<>>
                   THEN handle_leave_room(rs_state, rs_conn[c].username[1], room_name)
                   ELSE rs_state
    /\ rs_last' = NoRequest
    /\ UNCHANGED rs_conn
    /\ UNCHANGED notRs

\* the read returns 0 or fails: the clean-up on disconnect removes the user
\* the task is named after, and the task ends
RsDisconnect(c) ==
    /\ rs_conn[c].pc = "open"
    /\ rs_state' = IF rs_conn[c].username # <<>>
                   THEN remove_user(rs_state, rs_conn[c].username[1])
                   ELSE rs_state
    /\ rs_conn' = [rs_conn EXCEPT ![c] = [pc |-> "closed", username |-> <<>>]]
    /\ rs_last' = NoRequest
    /\ UNCHANGED notRs

RsInit ==
    /\ rs_state = NewServerState
    /\ rs_conn = [c \in RelayConns |-> NoConnection]
    /\ rs_last = NoRequest

RsNext ==
    \/ \E c \in RelayConns : RsAccept(c)
    \/ \E c \in RelayConns, r \in LoginRequests :
          RsLogin(c, r.username, r.password, r.version)
    \/ \E c \in RelayConns, room_name \in RoomNames : RsJoinRoom(c, room_name)
    \/ \E c \in RelayConns, room_name \in RoomNames : RsLeaveRoom(c, room_name)
    \/ \E c \in RelayConns : RsDisconnect(c)

Init == RateInit /\ DlInit /\ NegInit /\ AggInit /\ SrvInit /\ LoginInit /\ BrowseInit /\ BackoffInit /\ BatchInit /\ TokenInit /\ CodecInit /\ InboundInit /\ PrimInit /\ PickInit /\ QsInit /\ PfInit /\ RsInit

SpecRate == Init /\ [][RateNext]_vars

SpecDl == Init /\ [][DlNext]_vars

\* The main loop, the download tasks and the App's loop are tokio tasks that
\* are polled whenever they can run; the user's commands are not obliged to
\* come.
DlFairness ==
    /\ WF_vars(RespTake)
    /\ WF_vars(RespBrowse)
    /\ WF_vars(RespActivate)
    /\ \A t \in 1..MaxTasks :
          /\ WF_vars(TaskConnect(t))
          /\ WF_vars(TaskTransfer(t))
          /\ WF_vars(TaskMore(t))
          /\ WF_vars(TaskDeactivate(t))
    /\ WF_vars(AppHandle)

SpecDlFair == Init /\ [][DlNext]_vars /\ DlFairness

SpecNeg == Init /\ [][NegNext]_vars

SpecAgg == Init /\ [][AggNext]_vars

SpecSrv == Init /\ [][SrvNext]_vars

SpecLogin == Init /\ [][LoginNext]_vars

SpecBrowse == Init /\ [][BrowseNext]_vars

SpecBackoff == Init /\ [][BackoffNext]_vars

SpecBatch == Init /\ [][BatchNext]_vars

SpecToken == Init /\ [][TokenNext]_vars

SpecCodec == Init /\ [][CodecNext]_vars

SpecInbound == Init /\ [][InboundNext]_vars

SpecPrim == Init /\ [][PrimNext]_vars

SpecPick == Init /\ [][PickNext]_vars

SpecQueued == Init /\ [][QsNext]_vars

SpecPierced == Init /\ [][PfNext]_vars

SpecRelay == Init /\ [][RsNext]_vars

(***************************************************************************)
(* C1: under any interleaving of search commands and drain tasks, no       *)
(* trailing 220 s window holds more than 34 FileSearch sends.              *)
(***************************************************************************)
SendsInWindowEndingAt(i) ==
    Cardinality({j \in 1..i : sent[j].time + SEARCH_RATE_LIMIT_WINDOW > sent[i].time})

C1_AtMost34PerWindow ==
    \A i \in 1..Len(sent) : SendsInWindowEndingAt(i) <= SEARCH_RATE_LIMIT_MAX

(***************************************************************************)
(* C3: every search queued because the budget was full is later sent       *)
(* without a further user command.  A queued search is sent only by a      *)
(* drain task, and a drain task is spawned only for a message on the       *)
(* rate_limit channel: so while a search waits in the queue, a drain task  *)
(* or a rate_limit message must exist.                                     *)
(***************************************************************************)
C3_QueuedSearchIsServed ==
    queued_searches # <<>> =>
        \/ rate_limit_rx > 0
        \/ \E d \in 1..MaxDrains : drains[d].pc # "free"

(***************************************************************************)
(* C2: at most one download is in progress (has its peer channel open) for *)
(* a username at any moment.                                               *)
(***************************************************************************)
InProgress(t) == tasks[t].pc = "transfer"

C2_OneDownloadPerUser ==
    \A t1, t2 \in 1..MaxTasks :
        (InProgress(t1) /\ InProgress(t2) /\ tasks[t1].user = tasks[t2].user)
            => t1 = t2

(***************************************************************************)
(* C4 as stated: once a download's status is Completed or Failed it never  *)
(* changes again, whatever events or retry commands follow for that id.    *)
(***************************************************************************)
Terminal(status) == status \in {"Completed", "Failed"}

C4_TerminalNeverChanges ==
    [][\A id \in DOMAIN app_downloads :
          Terminal(app_downloads[id].status)
              => app_downloads'[id].status = app_downloads[id].status]_vars

(***************************************************************************)
(* C4 amended: once a download's status is Completed or Failed it never    *)
(* changes again unless a RetryDownloadFile command was issued for that    *)
(* id; a retry restarts the download under its id.                         *)
(***************************************************************************)
C4_TerminalChangesOnlyByRetry ==
    [][\A id \in DOMAIN app_downloads :
          (Terminal(app_downloads[id].status) /\ id \notin retried')
              => app_downloads'[id].status = app_downloads[id].status]_vars

\* A download that was never retried is terminal while a retried one has
\* been restarted and has come to an end again.
C4_Witness ==
    \E id, other \in DOMAIN app_downloads :
        /\ id \notin retried
        /\ other \in retried
        /\ app_downloads[id].status = "Failed"
        /\ app_downloads[other].status = "Completed"

(***************************************************************************)
(* C5: the file channel is opened only after a TransferRequest with        *)
(* direction Upload for the requested filename was received and answered   *)
(* with TransferResponse{same token, allowed = true}; the writes on the    *)
(* file channel are, in order, PeerInit{File, the token of the peer-kind   *)
(* PeerInit}, the 4-byte transfer token of that request, the 8-byte        *)
(* offset 0.                                                               *)
(***************************************************************************)
RECURSIVE FromLE(_)
FromLE(bytes) == IF bytes = <<>> THEN 0 ELSE Head(bytes) + 256 * FromLE(Tail(bytes))

IsUploadRequestForFile(m) ==
    m.type = "TransferRequest" /\ m.direction = "Upload" /\ m.filename = ReqFile

UploadRequests == SelectSeq(peer_in, IsUploadRequestForFile)

Responses == SelectSeq(peer_out, LAMBDA m : m.type = "TransferResponse")

C5_FileChannelProtocol ==
    /\ file_connected =>
        /\ UploadRequests # <<>>
        /\ Len(Responses) = Len(UploadRequests)
        /\ \A i \in 1..Len(Responses) :
            /\ Responses[i].token = UploadRequests[i].token
            /\ Responses[i].allowed = TRUE
    /\ file_out # <<>> => file_connected
    /\ Len(file_out) <= 3
    /\ Len(file_out) >= 1 =>
        /\ file_out[1].type = "PeerInit"
        /\ file_out[1].connection_type = "F"
        /\ file_out[1].token = peer_out[1].token
    /\ Len(file_out) >= 2 =>
        /\ Len(file_out[2]) = 4
        /\ FromLE(file_out[2]) = UploadRequests[Len(UploadRequests)].token
    /\ Len(file_out) >= 3 =>
        /\ Len(file_out[3]) = 8
        /\ FromLE(file_out[3]) = 0

\* a download that wrote all three items after two requests with different
\* tokens, the last one needing two bytes
C5_Witness ==
    /\ Len(file_out) = 3
    /\ Len(UploadRequests) = 2
    /\ UploadRequests[1].token = 7
    /\ UploadRequests[2].token = 300

(***************************************************************************)
(* C6 as stated: a download whose peer sent UploadDenied or UploadFailed,  *)
(* or whose peer channel closed before any TransferRequest arrived, ends   *)
(* Failed and is never reported Completed.                                 *)
(***************************************************************************)
IsDenial(m) == m.type \in {"UploadDenied", "UploadFailed"}

C7_CompletedIff95Percent ==
    file_ended =>
        /\ result \in {"Completed", "Failed"}
        /\ result = "Completed" <=> 100 * downloaded >= 95 * file_size

(***************************************************************************)
(* C8: for each track-match or retry search the aggregation timer is armed *)
(* exactly once, on the first result received for its token, never a       *)
(* second time; a search with no result is never finalized.                *)
(***************************************************************************)
Aggregating(token) ==
    token \in DOMAIN searches /\ searches[token] \in {"SpotifyTrack", "RetryDownload"}

C8_TimerArmedOnceOnFirstResult ==
    \A token \in AggTokens : Aggregating(token) =>
        /\ armed[token] <= 1
        /\ processed[token] > 0 => armed[token] = 1
        /\ armed[token] = 1 => processed[token] > 0
        /\ fired[token] > 0 => processed[token] > 0

(***************************************************************************)
(* C9: when the aggregation timer of a track-match or retry search fires,  *)
(* exactly one outcome event is emitted for it: Matched with the file the  *)
(* best-file selector chooses among the accumulated results, or NoMatch    *)
(* when there is no candidate.                                             *)
(***************************************************************************)
Score(r) ==
    LET isFlac == r.file.filename \in {"a.flac"}
        rates == {r.file.attributes[i].value :
                     i \in {j \in 1..Len(r.file.attributes) :
                               r.file.attributes[j].code = 0}}
        first == IF rates = {} THEN 0
                 ELSE r.file.attributes[CHOOSE j \in 1..Len(r.file.attributes) :
                         /\ r.file.attributes[j].code = 0
                         /\ \A k \in 1..(j - 1) : r.file.attributes[k].code # 0].value
    IN  (IF isFlac \/ rates # {} THEN 2000000 ELSE 0)
        + (IF isFlac THEN 1000000 ELSE 0) + first

AudioNames == {"a.flac", "b.mp3", "c.MP3"}

\* index of the best candidate of results, 0 when there is none: an audio file
\* that no other audio file outscores, the earliest of those
BestIndex(results) ==
    LET cand == {i \in 1..Len(results) : results[i].file.filename \in AudioNames}
    IN  IF cand = {} THEN 0
        ELSE CHOOSE i \in cand :
                /\ \A j \in cand : Score(results[j]) <= Score(results[i])
                /\ \A j \in cand : j < i => Score(results[j]) < Score(results[i])

OutcomesOf(token) ==
    SelectSeq(agg_events, LAMBDA e :
        \/ /\ searches[token] = "SpotifyTrack"
           /\ e.type \in {"SpotifyTrackMatched", "NoAudioMatch"}
           /\ e.track_index = token - 1
        \/ /\ searches[token] = "RetryDownload"
           /\ e.type \in {"RetryDownloadMatched", "RetryDownloadFailed"}
           /\ e.download_id = token)

Outcome(frame) ==
    CASE frame.kind = "ParentMinSpeed" ->
            [type |-> "ParentMinSpeed", speed |-> frame.serial]
      [] frame.kind = "CheckPrivileges" ->
            [type |-> "CheckPrivileges", time_left |-> frame.serial]
      [] frame.kind = "Unknown" -> [type |-> "Error"]

C10_HandledInSentOrder ==
    /\ Len(srv_log) <= Len(srv_sent)
    /\ \A i \in 1..Len(srv_log) : srv_log[i] = Outcome(srv_sent[i])

\* three frames, the middle one undecodable, handled over at least four reads
C10_Witness ==
    /\ Len(srv_log) = 3
    /\ srv_log[1].type = "CheckPrivileges"
    /\ srv_log[2].type = "Error"
    /\ srv_log[3].type = "ParentMinSpeed"
    /\ srv_reads >= 4

(***************************************************************************)
(* C11: no partial frame is ever handed to a message decoder: every buffer *)
(* given to the decoder on the server channel, during and after login, is  *)
(* exactly one frame the server wrote, however the bytes are split into    *)
(* reads.                                                                  *)
(***************************************************************************)
C11_DecoderGetsWholeFrames ==
    \A i \in 1..Len(lg_decoded) :
        \E k \in 1..Len(lg_sent) :
            lg_decoded[i] = ServerFrame(lg_sent[k].kind, lg_sent[k].serial)

(***************************************************************************)
(* C13: whenever the server has sent LoginSuccess, whatever precedes it    *)
(* and however the bytes are grouped into reads, the client gets past the  *)
(* wait once it has read all the bytes (unless the socket itself failed),  *)
(* and then writes SetStatus(Online) followed by SetWaitPort(listen_port). *)
(***************************************************************************)
LoginSuccessSent == \E i \in 1..Len(lg_sent) : lg_sent[i].kind = "LoginSuccess"

C13_LoginSuccessIsReached ==
    /\ (LoginSuccessSent /\ lg_wire = <<>> /\ lg_cause \notin {"closed", "io", "timeout"})
          => lg_pc \in {"set_status", "set_wait_port", "main", "logged_in", "ended"}
    /\ \A i \in 1..Len(lg_out) :
          lg_out[i] = <<SetStatus("Online"), SetWaitPort(listen_port)>>[i]
    /\ lg_pc \in {"main", "ended"} => Len(lg_out) = 2

(***************************************************************************)
(* C14: while the client waits for the login reply, a frame with an        *)
(* unexpected code, or one that cannot be decoded, never aborts the login. *)
(***************************************************************************)
C14_UnexpectedFrameNeverAbortsLogin == ~(lg_pc = "failed" /\ lg_cause = "parse")

(***************************************************************************)
(* C15: when the server channel fails or is closed after login, the client *)
(* reconnects instead of ending the session.                               *)
(***************************************************************************)
C15_SessionSurvivesServerLoss == lg_lost => lg_pc # "ended"

(***************************************************************************)
(* C12: a frame whose code is unknown to the client fails only that frame, *)
(* not the channel: the reader of the browse connection never gives up the *)
(* channel because a frame did not decode.                                 *)
(***************************************************************************)
C12_UnknownCodeFailsOnlyTheFrame == ~(br_pc = "failed" /\ br_cause = "parse")

(***************************************************************************)
(* C16: connecting with backoff makes at most 5 attempts; after the k-th   *)
(* failed attempt (k = 1..4) it waits 30 * k seconds when the error text   *)
(* contains "rate limit" or "reset", and otherwise 10, 20, 40, 60 seconds  *)
(* for k = 1, 2, 3, 4.                                                     *)
(***************************************************************************)
C16_BackoffSchedule ==
    /\ attempt <= 5
    /\ Len(bo_delays) <= 4
    /\ \A k \in 1..Len(bo_delays) :
          bo_delays[k] = IF contains_rate_limit_or_reset(bo_errors[k])
                         THEN 30 * k
                         ELSE <<10, 20, 40, 60>>[k]

(***************************************************************************)
(* C17: a track whose download keeps failing is retried up to 3 times: no  *)
(* track gets more than 4 search-and-download rounds in total, and a track *)
(* marked Failed is never attempted again.                                 *)
(***************************************************************************)
C17_AtMostFourRounds ==
    \A i \in Tracks :
        /\ bt_rounds[i] <= MAX_RETRIES + 1
        /\ bt_downloads[i].status = "Failed" => ~(bt_pc # "pick" /\ bt_idx = i)

(***************************************************************************)
(* C18 as stated: every call of next_token, concurrent calls included,     *)
(* returns a value strictly greater than every value returned before, so   *)
(* no token is 0 and no two tokens are equal.                              *)
(***************************************************************************)
TokensIncrease ==
    /\ tk_first # NoToken =>
          /\ less(tk_prev_max, tk_first)
          /\ ~less(tk_last, tk_first)
          /\ tk_first # <<0, 0>>
    /\ \A t, u \in TokenTasks :
          (t # u /\ tk_held[t] # NoToken) => tk_held[t] # tk_held[u]

C18_TokensAlwaysIncrease == TokensIncrease

(***************************************************************************)
(* C18, amended: the first 2^32 - 1 calls of next_token return 1, 2, ...   *)
(* in the order of the calls: each value is greater than every value       *)
(* returned before, none is 0 and no two are equal.  (The 2^32-th call     *)
(* returns 0.)                                                             *)
(***************************************************************************)
C18_TokensIncreaseUntilWrap == tk_calls[1] < Half => TokensIncrease

C18_Witness ==
    /\ tk_calls[1] = Half - 1
    /\ tk_calls[2] = Half - 1
    /\ tk_last = <<Half - 1, Half - 1>>
    /\ \E t, u \in TokenTasks : t # u /\ tk_held[t] # NoToken /\ tk_held[u] # NoToken

(***************************************************************************)
(* C19: for every message kind and every well-formed instance m, decoding  *)
(* the bytes produced by encoding m yields m again.                        *)
(***************************************************************************)
C19_DecodeEncodeIsIdentity == cd_pc = "decoded" => cd_decoded = cd_msg

(***************************************************************************)
(* C20: write_message writes a length field equal to 4 + payload length,   *)
(* write_message_u8 one equal to 1 + payload length, and the bytes written *)
(* are 4 + the declared length.                                            *)
(***************************************************************************)
C20_DeclaredLengthIsCodePlusPayload ==
    cd_pc \in {"encoded", "decoded"} =>
        /\ from_le_bytes(cd_bytes)
             = (IF IsPeerInit(cd_msg) THEN 1 ELSE 4) + Len(write_payload(cd_msg))
        /\ Len(cd_bytes) = 4 + from_le_bytes(cd_bytes)

C20_Witness ==
    /\ cd_pc = "encoded"
    /\ cd_msg.type = "PeerInit"
    /\ cd_msg.username # <<>>
    /\ Len(cd_bytes) = 19

(***************************************************************************)
(* C21: peer_init_message_size(b) is Some(n) exactly when the first n      *)
(* bytes of b are a complete frame (n = 4 + declared length, also when     *)
(* further bytes follow), and None for every truncation of the frame.      *)
(***************************************************************************)
C21_SizeIffCompleteFrame ==
    in_pc = "wait" =>
        peer_init_message_size(in_read_buf)
            = IF Len(in_read_buf) >= Len(in_frame) THEN <<Len(in_frame)>> ELSE <<>>

C21_Witness ==
    /\ in_pc = "wait"
    /\ Len(in_read_buf) > Len(in_frame)
    /\ peer_init_message_size(in_read_buf) = <<Len(in_frame)>>

(***************************************************************************)
(* C23: read_peer_init_message on a buffer holding one peer-init frame     *)
(* followed by further bytes returns the frame's message and consumes      *)
(* exactly the bytes of the frame: what follows the frame stays in the     *)
(* buffer.                                                                 *)
(***************************************************************************)
C23_ConsumesExactlyTheFrame ==
    in_pc = "init_done" =>
        /\ in_init = in_msg
        /\ in_read_buf = SubSeq(in_taken, Len(in_frame) + 1, Len(in_taken))

(***************************************************************************)
(* C22: every primitive read on a buffer that is too short fails with      *)
(* BufferUnderflow and leaves the cursor untouched: it consumes no byte.   *)
(***************************************************************************)
TooShort(kind, buf) ==
    IF kind \in FixedKinds THEN Len(buf) < size_of(kind)
    ELSE Len(buf) < 4 \/ Len(buf) - 4 < le_value(SubSeq(buf, 1, 4))

C22_ShortReadConsumesNothing ==
    (pr_kind # "" /\ TooShort(pr_kind, pr_buf)) =>
        /\ ~pr_result.ok
        /\ pr_result.error = "BufferUnderflow"
        /\ pr_rest = pr_buf

(***************************************************************************)
(* C24: the selector never returns a non-audio file and returns nothing    *)
(* when there is no audio candidate; among the audio candidates it returns *)
(* the first in the order (has bitrate info, FLAC counting as yes; is      *)
(* FLAC; bitrate), ties going to the earlier one in insertion order.       *)
(***************************************************************************)
IsFlacFile(f) == f \in {flac, flac320}

HasBitrateInfo(f) == f \in {flac, flac320, mp3hi, mp3lo}

BitrateOf(f) ==
    CASE f \in {mp3hi, flac320} -> 320
      [] f = mp3lo -> 128
      [] OTHER -> 0

Ranks(f, g) ==
    \/ HasBitrateInfo(f) /\ ~HasBitrateInfo(g)
    \/ /\ HasBitrateInfo(f) = HasBitrateInfo(g)
       /\ \/ IsFlacFile(f) /\ ~IsFlacFile(g)
          \/ IsFlacFile(f) = IsFlacFile(g) /\ BitrateOf(f) > BitrateOf(g)

\* results[i] is the first of the results at the indices in among
FirstInOrder(results, among, i) ==
    /\ i \in among
    /\ \A j \in among :
          /\ ~Ranks(results[j].file, results[i].file)
          /\ j < i => Ranks(results[i].file, results[j].file)

AudioAt == {i \in 1..Len(pk_results) : pk_results[i].file # txt}

EligibleAt == {i \in AudioAt : pk_results[i].username \notin pk_exclude}

C24_BestAudioFirstInOrder ==
    pk_pc = "picked" =>
        /\ IF AudioAt = {} THEN pk_best = <<>>
           ELSE /\ Len(pk_best) = 1
                /\ \E i \in AudioAt : /\ FirstInOrder(pk_results, AudioAt, i)
                                      /\ pk_best[1] = pk_results[i]
        /\ IF EligibleAt = {} THEN pk_candidates = <<>>
           ELSE /\ pk_candidates # <<>>
                /\ \E i \in EligibleAt : /\ FirstInOrder(pk_results, EligibleAt, i)
                                         /\ pk_candidates[1] = pk_results[i]
        /\ \A k \in 1..Len(pk_candidates) : pk_candidates[k].file # txt

C24_Witness ==
    /\ pk_pc = "picked"
    /\ pk_results = <<AccumulatedResult("bob", txt), AccumulatedResult("bob", mp3hi),
                      AccumulatedResult("carol", flac320)>>
    /\ pk_best = <<AccumulatedResult("carol", flac320)>>

(***************************************************************************)
(* C25 as stated: the selector returns one candidate per username, and the *)
(* one kept for a username is the first seen for it in insertion order.    *)
(***************************************************************************)
OnePerUser ==
    \A k, l \in 1..Len(pk_candidates) :
        k # l => pk_candidates[k].username # pk_candidates[l].username

UserAt(u) == {i \in EligibleAt : pk_results[i].username = u}

C25_KeepsFirstInserted ==
    pk_pc = "picked" =>
        /\ OnePerUser
        /\ \A k \in 1..Len(pk_candidates) :
              \E i \in UserAt(pk_candidates[k].username) :
                  /\ pk_candidates[k] = pk_results[i]
                  /\ \A j \in UserAt(pk_candidates[k].username) : i <= j

(***************************************************************************)
(* C25, amended: the selector returns one candidate per username, every    *)
(* user with an eligible result has one, and the one kept for a username   *)
(* is the first of that user's results in the selector's order (insertion  *)
(* order only breaks ties).                                                *)
(***************************************************************************)
C25_KeepsBestRanked ==
    pk_pc = "picked" =>
        /\ OnePerUser
        /\ \A i \in EligibleAt :
              \E k \in 1..Len(pk_candidates) :
                  pk_candidates[k].username = pk_results[i].username
        /\ \A k \in 1..Len(pk_candidates) :
              \E i \in UserAt(pk_candidates[k].username) :
                  /\ pk_candidates[k] = pk_results[i]
                  /\ FirstInOrder(pk_results, UserAt(pk_candidates[k].username), i)

C25_Witness ==
    /\ pk_pc = "picked"
    /\ pk_results = <<AccumulatedResult("bob", mp3lo), AccumulatedResult("carol", ogg),
                      AccumulatedResult("bob", flac)>>
    /\ pk_candidates = <<AccumulatedResult("bob", flac), AccumulatedResult("carol", ogg)>>


(***************************************************************************)
(* C27: time_until_next_slot returns None exactly when fewer than 34       *)
(* timestamps remain in the 220 s window after pruning, and otherwise      *)
(* oldest timestamp + 220 s - now, clamped to be at least 0.               *)
(***************************************************************************)
\* the recorded sends that prune_old_searches keeps at time t
InWindow(t) == {i \in 1..Len(sent) : ~(sent[i].time < t - SEARCH_RATE_LIMIT_WINDOW)}

OldestInWindow(t) ==
    LET i == CHOOSE x \in InWindow(t) : \A y \in InWindow(t) : x <= y
    IN  sent[i].time

Clamp(n) == IF n < 0 THEN 0 ELSE n

SlotNow == time_until_next_slot(prune_old_searches(search_timestamps, now), now)

C27_NoneIffUnderCapacity ==
    IF Cardinality(InWindow(now)) < SEARCH_RATE_LIMIT_MAX
    THEN SlotNow = NoWait
    ELSE SlotNow = Clamp(OldestInWindow(now) + SEARCH_RATE_LIMIT_WINDOW - now)

\* the limiter is full and its oldest timestamp is not the current instant
C27_Witness ==
    /\ Cardinality(InWindow(now)) >= SEARCH_RATE_LIMIT_MAX
    /\ SlotNow > 0
    /\ SlotNow < SEARCH_RATE_LIMIT_WINDOW

(***************************************************************************)
(* C28 as stated: can_search is true exactly when fewer than 34 sends were *)
(* recorded within the trailing 220 s; after 34 recorded sends within one  *)
(* second it is false throughout the following 220 s, and after 34 sends   *)
(* followed by an advance of 220 s it is true again.                       *)
(***************************************************************************)
CanSearchNow == can_search(prune_old_searches(search_timestamps, now))

C28_TrueIffUnder34InWindow ==
    CanSearchNow <=> Cardinality(InWindow(now)) < SEARCH_RATE_LIMIT_MAX

\* sends i .. i + 33 were recorded within one second
Burst(i) ==
    /\ i + SEARCH_RATE_LIMIT_MAX - 1 <= Len(sent)
    /\ sent[i + SEARCH_RATE_LIMIT_MAX - 1].time - sent[i].time < 1000

LastOfBurst(i) == sent[i + SEARCH_RATE_LIMIT_MAX - 1].time

C28_FalseFor220sThenTrue ==
    /\ C28_TrueIffUnder34InWindow
    /\ \A i \in 1..Len(sent) :
          (Burst(i) /\ now <= LastOfBurst(i) + SEARCH_RATE_LIMIT_WINDOW)
              => ~CanSearchNow
    /\ (Len(sent) = SEARCH_RATE_LIMIT_MAX
          /\ now >= sent[Len(sent)].time + SEARCH_RATE_LIMIT_WINDOW)
              => CanSearchNow

(***************************************************************************)
(* C28, amended: can_search is true exactly when fewer than 34 recorded    *)
(* sends have a timestamp at or after now - 220 s; after 34 recorded sends *)
(* it is false until 220 s after the first of them, that instant included, *)
(* and after 34 sends it is true again once more than 220 s have passed    *)
(* since the first of them.                                                *)
(***************************************************************************)
C28_FalseUntil220sAfterFirst ==
    /\ C28_TrueIffUnder34InWindow
    /\ \A i \in 1..Len(sent) :
          (Burst(i) /\ now <= sent[i].time + SEARCH_RATE_LIMIT_WINDOW)
              => ~CanSearchNow
    /\ (Len(sent) = SEARCH_RATE_LIMIT_MAX
          /\ now > sent[1].time + SEARCH_RATE_LIMIT_WINDOW)
              => CanSearchNow

\* 34 sends, and the window of the first has passed but not that of the last
C28_Witness ==
    /\ Len(sent) >= SEARCH_RATE_LIMIT_MAX
    /\ now > sent[1].time + SEARCH_RATE_LIMIT_WINDOW
    /\ now < sent[SEARCH_RATE_LIMIT_MAX].time + SEARCH_RATE_LIMIT_WINDOW
    /\ CanSearchNow

(***************************************************************************)
(* C26: a search queued by the rate limiter keeps its kind: when it is     *)
(* drained and sent it is registered as the kind it was submitted with     *)
(* (interactive; track-match with its track index; retry with its download *)
(* id), so its results are routed as for a search of that kind sent        *)
(* immediately.                                                            *)
(***************************************************************************)
\* the registration and the route a search of this kind must have
RegisteredAs(search, token, st) ==
    /\ token \in st.pending_searches
    /\ (token \in DOMAIN st.spotify_track_searches) = (search.kind = "SpotifyTrack")
    /\ (token \in DOMAIN st.retry_searches) = (search.kind = "RetryDownload")
    /\ search.kind = "SpotifyTrack" =>
          st.spotify_track_searches[token].track_index = search.track_index
    /\ search.kind = "RetryDownload" =>
          st.retry_searches[token].download_id = search.download_id
    /\ route(token, st) =
          CASE search.kind = "SpotifyTrack" -> "accumulate_search_results"
            [] search.kind = "RetryDownload" -> "accumulate_retry_results"
            [] OTHER -> "SearchResult"

QueuedSubmissions == SelectSeq(qs_submitted, LAMBDA s : s.queued)

DrainedSends == SelectSeq(qs_sent, LAMBDA s : s.drained)

C26_QueuedSearchKeepsItsKind ==
    /\ Len(DrainedSends) <= Len(QueuedSubmissions)
    /\ \A i \in 1..Len(DrainedSends) :
          /\ DrainedSends[i].search = QueuedSubmissions[i].search
          /\ RegisteredAs(QueuedSubmissions[i].search, DrainedSends[i].token, qs_st)
    /\ \A i \in 1..Len(qs_sent) :
          RegisteredAs(qs_sent[i].search, qs_sent[i].token, qs_st)

\* a track-match and a retry search were queued and both have been drained
C26_Witness ==
    /\ \E i \in 1..Len(DrainedSends) : DrainedSends[i].search.kind = "SpotifyTrack"
    /\ \E i \in 1..Len(DrainedSends) : DrainedSends[i].search.kind = "RetryDownload"
    /\ \E i \in 1..Len(qs_sent) : ~qs_sent[i].drained

(***************************************************************************)
(* C29: when the server pushes ConnectToPeer with kind P, address          *)
(* (ip, port) and token t, the client dials that (ip, port), writes        *)
(* PierceFirewall{t} as the first (and only) message of its own, and then  *)
(* decodes every complete frame it receives on the connection as a peer    *)
(* message, in the order received.                                         *)
(***************************************************************************)
RECURSIVE Flatten(_)
Flatten(frames) ==
    IF frames = <<>> THEN <<>> ELSE Head(frames) \o Flatten(Tail(frames))

\* the bytes of the peer's frames the client has read so far
PfReceived ==
    LET all == Flatten(pf_frames)
    IN  SubSeq(all, 1, Len(all) - Len(pf_wire))

\* the frames that lie completely within the bytes read so far
PfWholeFrames ==
    {i \in 1..Len(pf_frames) :
        Len(Flatten(SubSeq(pf_frames, 1, i))) <= Len(PfReceived)}

C29_PierceThenPeerMessages ==
    /\ pf_pc \in {"spawned", "open", "ended"} => pf_push.connection_type = "Peer"
    /\ pf_dialed # <<>> => pf_dialed = pf_push.address
    /\ pf_pc = "open" =>
          /\ pf_dialed = pf_push.address
          /\ LET first == read_peer_init_message(pf_out)
             IN  /\ first.ok
                 /\ first.value = [type |-> "PierceFirewall", token |-> pf_push.token]
                 /\ first.rest = <<>>
    /\ pf_out = <<>> => pf_decoded = <<>>
    /\ Len(pf_decoded) = Cardinality(PfWholeFrames)
    /\ \A i \in 1..Len(pf_decoded) : pf_decoded[i] = read_peer_message(pf_frames[i])

\* two frames arrived in one read and a frame of an unknown code was among
\* those decoded before a well-formed one
C29_Witness ==
    /\ pf_pc = "open"
    /\ Len(pf_decoded) >= 2
    /\ pf_wire = <<>>
    /\ pf_decoded[1].type = "Error"
    /\ pf_decoded[2].type = "SharedFileListResponse"


(***************************************************************************)
(* C30: every download accepted by DownloadFile, DownloadSpotifyTrack or   *)
(* RetryDownloadFile is eventually started or reported Failed when every   *)
(* GetPeerAddress request is answered: no download stays in                *)
(* pending_downloads forever.                                              *)
(***************************************************************************)
C30_NoDownloadPendingForever ==
    \A u \in Users : (pending_downloads[u] # <<>>) ~> (pending_downloads[u] = <<>>)

\* a download waits in pending_downloads and nothing is left to take it: no
\* GetPeerAddress reply is due, the main loop is idle and no task runs
Stranded ==
    /\ \E u \in Users : pending_downloads[u] # <<>>
    /\ addr_replies = <<>>
    /\ main = MainIdle
    /\ \A t \in 1..MaxTasks : tasks[t] = TaskFree
    /\ event_rx = <<>>
    /\ active_download_users = {}


(***************************************************************************)
(* C31: results for the token of a track-match or retry search are never   *)
(* emitted as interactive SearchResult events, on the pierced path and on  *)
(* the inbound path alike, whatever the interleaving with the finalization *)
(* of that search.                                                         *)
(***************************************************************************)
C31_NeverEmittedAsInteractive ==
    [][\A p \in Peers :
          PeerSearchResult(p) => ~Aggregating(peers[p].token)]_vars

(***************************************************************************)
(* C40: a token present in spotify_track_searches or retry_searches is     *)
(* also present in pending_searches.                                       *)
(***************************************************************************)
C40_KindMapsWithinPending ==
    (DOMAIN spotify_track_searches \cup DOMAIN retry_searches) \subseteq pending_searches

\* one search of each kind was registered, one of them has been finalized
\* and the other is still registered
C40_Witness ==
    /\ \E token \in AggTokens : Aggregating(token) /\ fired[token] > 0
                                   /\ token \notin pending_searches
    /\ \E token \in AggTokens : Aggregating(token) /\ token \in pending_searches


(***************************************************************************)
(* C32: bytes the server sends after the LoginSuccess frame are never      *)
(* discarded, also when they arrive in the same read as the login reply:   *)
(* once the main loop has read everything, every frame the server wrote    *)
(* has been given to the decoder, whole and in the order sent.             *)
(***************************************************************************)
C32_NothingAfterLoginIsDiscarded ==
    (lg_variant = "tui" /\ lg_pc = "main" /\ lg_wire = <<>>) =>
        lg_decoded = [k \in 1..Len(lg_sent) |->
                         ServerFrame(lg_sent[k].kind, lg_sent[k].serial)]


(***************************************************************************)
(* C37: FileSearch requests reach the server in submission order: a search *)
(* submitted while earlier searches wait in the rate-limit queue is never  *)
(* sent before them, and queued searches are sent in the order queued.     *)
(***************************************************************************)
C37_SentInSubmissionOrder ==
    \A i, j \in 1..Len(sent) : i < j => sent[i].id < sent[j].id


(***************************************************************************)
(* C36: the batch downloader's main loop terminates for every finite track *)
(* list: each track reaches Completed or Failed after a bounded number of  *)
(* iterations, also when every search fails and every reconnect succeeds.  *)
(* The bound is that of the retry budget: every iteration of the loop uses *)
(* up one of the rounds its track has left, or ends the track.             *)
(***************************************************************************)
\* the rounds a track may still get: none once it is Completed or Failed
RoundsLeft(d) ==
    IF d.status \in {"Completed", "Failed"} THEN 0
    ELSE MAX_RETRIES + 1 - d.retry_count

RECURSIVE RoundsLeftUpTo(_, _)
RoundsLeftUpTo(downloads, n) ==
    IF n = 0 THEN 0 ELSE RoundsLeft(downloads[n]) + RoundsLeftUpTo(downloads, n - 1)

C36_EveryIterationUsesARound ==
    [][(bt_pc # "pick" /\ bt_pc' = "pick") =>
          RoundsLeftUpTo(bt_downloads', MaxTracks) < RoundsLeftUpTo(bt_downloads, MaxTracks)]_vars

(***************************************************************************)
(* C39: the number of online users on the relay server never exceeds the   *)
(* configured max_users, whatever the order of logins, relogins and        *)
(* disconnects.                                                            *)
(***************************************************************************)
C39_OnlineWithinMaxUsers == online_count(rs_state) <= max_users

\* the server is full and has just turned a user away for it
C39_Witness ==
    /\ online_count(rs_state) = max_users
    /\ rs_last.op = "Login"
    /\ rs_last.reply = "ServerFull"


(***************************************************************************)
(* C33: after a username has logged in again from a new connection, the    *)
(* disconnect of the superseded connection does not remove the new         *)
(* session: the user stays online and the session still belongs to the new *)
(* connection.                                                             *)
(***************************************************************************)
\* connection c is named after a user whose session belongs to another one
Superseded(c) ==
    /\ rs_conn[c].username # <<>>
    /\ rs_conn[c].username[1] \in DOMAIN rs_state.users
    /\ rs_state.users[rs_conn[c].username[1]].id # c

C33_SupersededDisconnectKeepsSession ==
    [][\A c \in RelayConns :
          (Superseded(c) /\ RsDisconnect(c)) =>
              LET username == rs_conn[c].username[1]
              IN  /\ username \in DOMAIN rs_state'.users
                  /\ rs_state'.users[username] = rs_state.users[username]]_vars

(***************************************************************************)
(* C34: a Login request the server rejects (invalid version, invalid       *)
(* username, empty password, server full, wrong password) leaves the       *)
(* server state unchanged; it does not remove an online session of that    *)
(* username.                                                               *)
(***************************************************************************)
C34_RejectedLoginChangesNothing ==
    [][\A c \in RelayConns, r \in LoginRequests :
          (RsLogin(c, r.username, r.password, r.version)
              /\ rs_last'.reply # "LoginSuccess") => rs_state' = rs_state]_vars

(***************************************************************************)
(* C35: the users and connections maps agree: connections maps an id to    *)
(* username u exactly when users holds a session for u with that id, also  *)
(* when one connection logs in under two usernames.                        *)
(***************************************************************************)
C35_UsersAndConnectionsAgree ==
    \A id \in RelayConns, u \in RelayNames :
        (id \in DOMAIN rs_state.connections /\ rs_state.connections[id] = u)
            <=> (u \in DOMAIN rs_state.users /\ rs_state.users[u].id = id)

(***************************************************************************)
(* C38: room membership stays consistent: a username is in a room's user   *)
(* set exactly when that user is online and has the room in its            *)
(* joined_rooms.                                                           *)
(***************************************************************************)
C38_RoomMembershipConsistent ==
    \A room_name \in RoomNames, u \in RelayNames :
        (room_name \in DOMAIN rs_state.rooms /\ u \in rs_state.rooms[room_name].users)
            <=> (u \in DOMAIN rs_state.users
                   /\ room_name \in rs_state.users[u].joined_rooms)

====
